---- MODULE Spec2Model ----
(***************************************************************************)
(* Model of the merge engine of cgap-gene-annotation                       *)
(* (src/cgap_gene_annotation/src/merge.py, class AnnotationMerge) and of   *)
(* the nested field accessor it reads records with (src/utils.py).         *)
(*                                                                         *)
(* Encoding of Python values.                                              *)
(*   str  : Str(s), s a non-empty sequence of separator-free segments,     *)
(*          i.e. s = string.split("."); "" is <<"">>, "g.id" is            *)
(*          <<"g","id">>.  FIELD_SEPARATOR.join is the inverse.            *)
(*   list : List(l), l a sequence of values.                               *)
(*   dict : Dict(d), d a function from keys (strings, encoded as above)    *)
(*          to values.                                                     *)
(*   None : None.                                                          *)
(*   int  : IntVal(i).                                                     *)
(* Collection positions are 1-based here and 0-based in the source.        *)
(***************************************************************************)
EXTENDS Integers, Sequences, FiniteSets, TLC

VARIABLES
    existing_annotation,     \* self.existing_annotation: the base collection
    new_annotation,          \* self.new_annotation: the incoming collection
    primary_merge_fields,    \* self.primary_merge_fields (the list object of merge_info)
    secondary_merge_fields,  \* self.secondary_merge_fields (the list object of merge_info)
    existing_to_new_unique,  \* self.existing_to_new_unique
    new_to_existing_unique,  \* self.new_to_existing_unique
    existing_to_new_edges,   \* self.existing_to_new_edges: list of maps position -> set
    new_to_existing_edges,   \* self.new_to_existing_edges: list of maps position -> set
    pc,                      \* position of merge_annotations in its body
    log,                     \* the log.info records merge_annotations emits, in order
    call0,                   \* history: the arguments the call was constructed with,
                             \* or what the GeneAnnotation held before the call
    applied,                 \* history: per add_merged_annotations call, the edges it
                             \* applied (kept) and the edges it set aside (pruned)
    args,                    \* the function applied on its own and its arguments
    ret,                     \* what that function returned or raised
    annotations,             \* GeneAnnotation.annotations
    metadata,                \* GeneAnnotation.metadata: prefix -> metadata of the source
    file_contents,           \* what the file at GeneAnnotation.file_path holds
    calls                    \* history: the GeneAnnotation methods called, in order

vars == <<existing_annotation, new_annotation, primary_merge_fields,
          secondary_merge_fields, existing_to_new_unique, new_to_existing_unique,
          existing_to_new_edges, new_to_existing_edges, pc, log, call0, applied,
          args, ret, annotations, metadata, file_contents, calls>>

(***************************************************************************)
(* Python values                                                           *)
(***************************************************************************)
Str(s) == [k |-> "str", s |-> s]
List(l) == [k |-> "list", l |-> l]
Dict(d) == [k |-> "dict", d |-> d]
None == [k |-> "none"]
IntVal(i) == [k |-> "int", i |-> i]

\* utils.FIELD_SEPARATOR.join([]) == "": the empty string has one empty segment.
EmptyString == <<"">>

IsStr(v) == v.k = "str"
IsList(v) == v.k = "list"
IsDict(v) == v.k = "dict"
IsInt(v) == v.k = "int"

\* Python truthiness of a value (if result: ...)
Truthy(v) ==
    CASE IsStr(v) -> v.s # EmptyString
      [] IsList(v) -> v.l # <<>>
      [] IsDict(v) -> DOMAIN v.d # {}
      [] IsInt(v) -> v.i # 0
      [] OTHER -> FALSE

\* dict.get(key): the value, or None when the key is absent
Get(item, key) == IF key \in DOMAIN item.d THEN item.d[key] ELSE None

\* an assignment that replaces the record by one holding the key alone
SetItemReplacesRecord(item, key, value) == Dict([p \in {key} |-> value])

\* item[key] = value
SetItem(item, key, value) ==
    Dict([p \in DOMAIN item.d \cup {key} |-> IF p = key THEN value ELSE item.d[p]])

\* del item[key]
DelItem(item, key) == Dict([p \in DOMAIN item.d \ {key} |-> item.d[p]])

RECURSIVE SetToSeq(_)
SetToSeq(S) ==
    IF S = {} THEN <<>>
    ELSE LET x == CHOOSE y \in S : TRUE IN <<x>> \o SetToSeq(S \ {x})

RECURSIVE SortedSeq(_)
SortedSeq(S) ==
    IF S = {} THEN <<>>
    ELSE LET x == CHOOSE y \in S : \A z \in S : y <= z IN <<x>> \o SortedSeq(S \ {x})

Range(seq) == {seq[i] : i \in DOMAIN seq}

\* What "for x in value" yields: the elements of a list, the keys of a dict.
IterKeys(value) ==
    CASE IsList(value) -> Range(value.l)
      [] IsDict(value) -> {Str(p) : p \in DOMAIN value.d}
      [] OTHER -> {}

\* The dict branch of nested_getter up to its recursive call: the value
\* found (under the whole path, or under its first term when the whole path
\* is not a key and holds a separator) and the path left to resolve in it.
DictStep(item, field_to_get) ==
    LET direct == Get(item, field_to_get)
        split == direct = None /\ Len(field_to_get) > 1
        found == IF split THEN Get(item, <<Head(field_to_get)>>) ELSE direct
        rest == IF Truthy(direct) THEN EmptyString
                ELSE IF split /\ Truthy(found) THEN Tail(field_to_get)
                ELSE field_to_get
    IN  [found |-> found, rest |-> rest]

RECURSIVE ListResults(_, _, _)
RECURSIVE nested_getter(_, _, _)

\* result += nested_getter(sub_item, field_to_get) over the sub items of a list
ListResults(l, field_to_get, i) ==
    IF i > Len(l) THEN {}
    ELSE IterKeys(nested_getter(l[i], field_to_get, FALSE))
            \cup ListResults(l, field_to_get, i + 1)

\* nested_getter that splits the path whenever its first term is a key, and
\* reads the whole path as a key only otherwise
RECURSIVE NestedGetterSplitsFirst(_, _, _)
NestedGetterSplitsFirst(item, field_to_get, string_return) ==
    LET result ==
            IF IsList(item) /\ Truthy(item)
              THEN List(SetToSeq(ListResults(item.l, field_to_get, 1)))
            ELSE IF IsDict(item)
              THEN LET split == /\ Len(field_to_get) > 1
                                /\ Get(item, <<Head(field_to_get)>>) # None
                       found == IF split THEN Get(item, <<Head(field_to_get)>>)
                                ELSE Get(item, field_to_get)
                       rest == IF ~Truthy(found) THEN field_to_get
                               ELSE IF split THEN Tail(field_to_get)
                               ELSE EmptyString
                   IN  IF Truthy(found) /\ rest # EmptyString
                         THEN NestedGetterSplitsFirst(found, rest, string_return)
                       ELSE IF found = None /\ ~string_return THEN List(<<>>)
                       ELSE found
            ELSE List(<<>>)
    IN  IF IsStr(result) /\ ~string_return THEN List(<<result>>)
        ELSE IF IsList(result) /\ Len(result.l) = 1 /\ string_return THEN result.l[1]
        ELSE result

nested_getter(item, field_to_get, string_return) ==
    LET result ==
            IF IsList(item) /\ Truthy(item)
              THEN \* list(set(result)): duplicates dropped, order unspecified
                   List(SetToSeq(ListResults(item.l, field_to_get, 1)))
            ELSE IF IsDict(item)
              THEN LET direct == Get(item, field_to_get)
                       split == direct = None /\ Len(field_to_get) > 1
                       found == IF split THEN Get(item, <<Head(field_to_get)>>)
                                ELSE direct
                       rest == IF Truthy(direct) THEN EmptyString
                               ELSE IF split /\ Truthy(found) THEN Tail(field_to_get)
                               ELSE field_to_get
                   IN  IF Truthy(found) /\ rest # EmptyString
                         THEN nested_getter(found, rest, string_return)
                       ELSE IF found = None /\ ~string_return THEN List(<<>>)
                       ELSE found
            ELSE List(<<>>)
    IN  IF IsStr(result) /\ ~string_return THEN List(<<result>>)
        ELSE IF IsList(result) /\ Len(result.l) = 1 /\ string_return THEN result.l[1]
        ELSE result

\* a value that "for x in value" cannot iterate (TypeError)
NotIterable(value) == IsInt(value) \/ value = None

\* a list with an element that cannot be a dict key or a set member
\* (TypeError: unhashable type)
HasUnhashable(value) ==
    IsList(value) /\ \E i \in DOMAIN value.l : IsList(value.l[i]) \/ IsDict(value.l[i])

\* nested_getter raises TypeError: in the list branch a sub item resolves to
\* a value that "result +=" cannot iterate or that set(result) cannot hold
RECURSIVE GetterRaises(_, _)
GetterRaises(item, field_to_get) ==
    IF IsList(item) /\ Truthy(item)
      THEN \E i \in DOMAIN item.l :
              \/ GetterRaises(item.l[i], field_to_get)
              \/ NotIterable(nested_getter(item.l[i], field_to_get, FALSE))
              \/ HasUnhashable(nested_getter(item.l[i], field_to_get, FALSE))
    ELSE IF IsDict(item)
      THEN LET step == DictStep(item, field_to_get)
           IN  Truthy(step.found) /\ step.rest # EmptyString
                   /\ GetterRaises(step.found, step.rest)
    ELSE FALSE

(***************************************************************************)
(* Edge maps and value maps: Python dicts whose values are sets            *)
(***************************************************************************)
EmptyMap == [x \in {} |-> {}]

\* AnnotationMerge.add_values_to_sets: list_of_keys and values_to_add are
\* only iterated, so they are given as sets.
add_values_to_sets(list_of_keys, values_to_add, dictionary) ==
    IF values_to_add = {} THEN dictionary
    ELSE [key \in DOMAIN dictionary \cup list_of_keys |->
            IF key \in list_of_keys
              THEN (IF key \in DOMAIN dictionary THEN dictionary[key] ELSE {})
                      \cup values_to_add
              ELSE dictionary[key]]

\* utils.nested_setter: item after the call (the dict is changed in place).
\* "if fields:" always passes, str.split returns at least one term.
RECURSIVE nested_setter(_, _, _, _)
nested_setter(item, field_to_set, value, delete_field) ==
    IF Get(item, field_to_set) # None
      THEN IF delete_field THEN DelItem(item, field_to_set)
           ELSE IF value # None THEN SetItem(item, field_to_set, value)
           ELSE item
    ELSE LET current_field == <<Head(field_to_set)>>
             fields == Tail(field_to_set)
             rest == IF fields = <<>> THEN EmptyString ELSE fields
             nested_item_value == Get(item, current_field)
         IN  IF IsDict(nested_item_value)
               THEN SetItem(item, current_field,
                            nested_setter(nested_item_value, rest, value, delete_field))
             ELSE IF nested_item_value = None /\ value # None
               THEN IF fields # <<>>
                      THEN SetItem(item, current_field,
                                   nested_setter(Dict(EmptyMap), rest, value,
                                                 delete_field))
                      ELSE SetItem(item, current_field, value)
             ELSE item

\* The loop of match_value_to_annotation over the positions idxs.
RECURSIVE MatchValueLoop(_, _, _, _)
MatchValueLoop(annotation, field, idxs, matches) ==
    IF idxs = {} THEN matches
    ELSE LET idx == CHOOSE i \in idxs : TRUE
             item_value == nested_getter(annotation[idx], field, FALSE)
         IN  MatchValueLoop(annotation, field, idxs \ {idx},
                            add_values_to_sets(IterKeys(item_value), {idx}, matches))

\* match_value_to_annotation that reads every position whatever indices is
MatchValueIgnoresIndices(annotation, field, indices) ==
    IF Truthy(field) /\ IsStr(field)
      THEN MatchValueLoop(annotation, field.s, DOMAIN annotation, EmptyMap)
      ELSE EmptyMap

\* AnnotationMerge.match_value_to_annotation.  indices is the set of the
\* positions given; None and the empty list are both falsy in "if indices:"
\* and are both the empty set here.  field is a str; with a list as field,
\* a call that does not raise has met no dict and has indexed nothing.
match_value_to_annotation(annotation, field, indices) ==
    IF Truthy(field) /\ IsStr(field)
      THEN MatchValueLoop(annotation, field.s,
                          IF indices # {} THEN indices ELSE DOMAIN annotation,
                          EmptyMap)
      ELSE EmptyMap

\* The loop of match_annotations over the keys of existing_value_map; the
\* result is <<existing_to_new, new_to_existing>>.
RECURSIVE MatchAnnotationsLoop(_, _, _, _)
MatchAnnotationsLoop(keys, existing_value_map, new_value_map, acc) ==
    IF keys = {} THEN acc
    ELSE LET key == CHOOSE x \in keys : TRUE
             new_annotation_idx ==
                 IF key \in DOMAIN new_value_map THEN new_value_map[key] ELSE {}
             existing_annotation_idx == existing_value_map[key]
             next ==
                 IF new_annotation_idx # {}
                   THEN <<add_values_to_sets(existing_annotation_idx,
                                             new_annotation_idx, acc[1]),
                          add_values_to_sets(new_annotation_idx,
                                             existing_annotation_idx, acc[2])>>
                   ELSE acc
         IN  MatchAnnotationsLoop(keys \ {key}, existing_value_map, new_value_map, next)

\* match_annotations that stops after one value of existing_value_map
MatchAnnotationsOneValue(existing_value_map, new_value_map) ==
    IF DOMAIN existing_value_map = {} THEN <<EmptyMap, EmptyMap>>
    ELSE MatchAnnotationsLoop({CHOOSE key \in DOMAIN existing_value_map : TRUE},
                              existing_value_map, new_value_map,
                              <<EmptyMap, EmptyMap>>)

\* match_annotations that fills the existing-to-new map alone
MatchAnnotationsOneWay(existing_value_map, new_value_map) ==
    << MatchAnnotationsLoop(DOMAIN existing_value_map, existing_value_map,
                            new_value_map, <<EmptyMap, EmptyMap>>)[1],
       EmptyMap >>

\* AnnotationMerge.match_annotations
match_annotations(existing_value_map, new_value_map) ==
    MatchAnnotationsLoop(DOMAIN existing_value_map, existing_value_map,
                         new_value_map, <<EmptyMap, EmptyMap>>)

\* IntersectTwo without the intersection: the second map is dropped unread
IntersectTwoDropsSecond(edge_list_1, edge_list_2) == edge_list_1

\* IntersectTwo that keeps the keys of both maps whose sets do not meet
IntersectTwoKeepsEmpty(edge_list_1, edge_list_2) ==
    [key \in DOMAIN edge_list_1 \cap DOMAIN edge_list_2 |->
        edge_list_1[key] \cap edge_list_2[key]]

\* One pass of the while loop of intersect_edges: edge_list_1 after the keys
\* missing from edge_list_2, or with an empty intersection, are deleted.
IntersectTwo(edge_list_1, edge_list_2) ==
    LET kept == {key \in DOMAIN edge_list_1 :
                    /\ key \in DOMAIN edge_list_2
                    /\ edge_list_1[key] \cap edge_list_2[key] # {}}
    IN  [key \in kept |-> edge_list_1[key] \cap edge_list_2[key]]

\* intersect_edges that keeps the last map of the list instead of folding
IntersectKeepsLast(list_of_edges) ==
    IF Len(list_of_edges) > 1 THEN <<list_of_edges[Len(list_of_edges)]>>
    ELSE list_of_edges

\* intersect_edges that keeps the first map of the list instead of folding
IntersectKeepsFirst(list_of_edges) ==
    IF Len(list_of_edges) > 1 THEN <<list_of_edges[1]>> ELSE list_of_edges

\* intersect_edges that leaves the list as it is
IntersectLeavesList(list_of_edges) == list_of_edges

\* AnnotationMerge.intersect_edges: the list it leaves behind
RECURSIVE intersect_edges(_)
intersect_edges(list_of_edges) ==
    IF Len(list_of_edges) > 1
      THEN intersect_edges(<<IntersectTwo(list_of_edges[1], list_of_edges[2])>>
                              \o SubSeq(list_of_edges, 3, Len(list_of_edges)))
      ELSE list_of_edges

\* prune_edges that removes nothing
PruneEdgesRemovesNothing(all_edges, edges_to_prune) == all_edges

\* AnnotationMerge.prune_edges: all_edges after the edges to prune are removed
prune_edges(all_edges, edges_to_prune) ==
    LET diff(key) == IF key \in DOMAIN edges_to_prune
                       THEN all_edges[key] \ edges_to_prune[key]
                       ELSE all_edges[key]
    IN  [key \in {x \in DOMAIN all_edges : diff(x) # {}} |-> diff(key)]

\* the loop with the test len(value) > 2
RECURSIVE PruneLoopOverTwo(_, _, _)
PruneLoopOverTwo(keys, edges, pruned) ==
    IF keys = {} THEN pruned
    ELSE LET key == CHOOSE x \in keys : TRUE
             value == edges[key]
             next == IF Cardinality(value) > 2
                       THEN <<add_values_to_sets({key}, value, pruned[1]),
                              add_values_to_sets(value, {key}, pruned[2])>>
                       ELSE pruned
         IN  PruneLoopOverTwo(keys \ {key}, edges, next)

\* One of the two loops of prune_to_unique_edges: every key of edges with
\* more than one value is added, with its values, to pruned[1] (keyed like
\* edges) and, mirrored, to pruned[2].
RECURSIVE PruneLoop(_, _, _)
PruneLoop(keys, edges, pruned) ==
    IF keys = {} THEN pruned
    ELSE LET key == CHOOSE x \in keys : TRUE
             value == edges[key]
             next == IF Cardinality(value) > 1
                       THEN <<add_values_to_sets({key}, value, pruned[1]),
                              add_values_to_sets(value, {key}, pruned[2])>>
                       ELSE pruned
         IN  PruneLoop(keys \ {key}, edges, next)

\* prune_to_unique_edges that hands the whole edge maps to the next round,
\* the edges it keeps included
PruneCarriesEveryEdge(e2n_edges, n2e_edges, e2n_unique, n2e_unique) ==
    LET existing_to_new == IF e2n_edges # <<>> THEN e2n_edges[1] ELSE EmptyMap
        new_to_existing == IF n2e_edges # <<>> THEN n2e_edges[1] ELSE EmptyMap
        by_existing ==
            IF e2n_unique
              THEN PruneLoop(DOMAIN existing_to_new, existing_to_new,
                             <<EmptyMap, EmptyMap>>)
              ELSE <<EmptyMap, EmptyMap>>
        by_new ==
            IF n2e_unique
              THEN PruneLoop(DOMAIN new_to_existing, new_to_existing,
                             <<by_existing[2], by_existing[1]>>)
              ELSE <<by_existing[2], by_existing[1]>>
    IN  [pruned_new_to_existing |-> new_to_existing,
         pruned_existing_to_new |-> existing_to_new,
         kept_existing_to_new |-> prune_edges(existing_to_new, by_new[2]),
         kept_new_to_existing |-> prune_edges(new_to_existing, by_new[1])]

\* prune_to_unique_edges that tests existing_to_new_unique alone
PruneByExistingOnly(e2n_edges, n2e_edges, e2n_unique, n2e_unique) ==
    LET existing_to_new == IF e2n_edges # <<>> THEN e2n_edges[1] ELSE EmptyMap
        new_to_existing == IF n2e_edges # <<>> THEN n2e_edges[1] ELSE EmptyMap
        by_existing ==
            IF e2n_unique
              THEN PruneLoop(DOMAIN existing_to_new, existing_to_new,
                             <<EmptyMap, EmptyMap>>)
              ELSE <<EmptyMap, EmptyMap>>
    IN  [pruned_new_to_existing |-> by_existing[2],
         pruned_existing_to_new |-> by_existing[1],
         kept_existing_to_new |-> prune_edges(existing_to_new, by_existing[1]),
         kept_new_to_existing |-> prune_edges(new_to_existing, by_existing[2])]

\* AnnotationMerge.prune_to_unique_edges, given the two edge lists and the
\* two flags.  pruned_* are the returned maps; kept_* are what the first maps
\* of the lists hold after the in-place prune_edges calls.
prune_to_unique_edges(e2n_edges, n2e_edges, e2n_unique, n2e_unique) ==
    LET existing_to_new == IF e2n_edges # <<>> THEN e2n_edges[1] ELSE EmptyMap
        new_to_existing == IF n2e_edges # <<>> THEN n2e_edges[1] ELSE EmptyMap
        by_existing ==
            IF e2n_unique
              THEN PruneLoop(DOMAIN existing_to_new, existing_to_new,
                             <<EmptyMap, EmptyMap>>)
              ELSE <<EmptyMap, EmptyMap>>
        by_new ==
            IF n2e_unique
              THEN PruneLoop(DOMAIN new_to_existing, new_to_existing,
                             <<by_existing[2], by_existing[1]>>)
              ELSE <<by_existing[2], by_existing[1]>>
        pruned_new_to_existing == by_new[1]
        pruned_existing_to_new == by_new[2]
    IN  [pruned_new_to_existing |-> pruned_new_to_existing,
         pruned_existing_to_new |-> pruned_existing_to_new,
         kept_existing_to_new |-> prune_edges(existing_to_new, pruned_existing_to_new),
         kept_new_to_existing |-> prune_edges(new_to_existing, pruned_new_to_existing)]

(***************************************************************************)
(* Merge specification (merge_info) and constructor                        *)
(***************************************************************************)
\* constants.MERGE_CHOICE_ONE, constants.MERGE_CHOICE_MANY
MERGE_CHOICE_ONE == "one"
MERGE_CHOICE_MANY == "many"

\* AnnotationMerge.convert_merge_type_to_bool
convert_merge_type_to_bool(merge_type) ==
    [idx \in 1..2 |-> idx <= Len(merge_type) /\ merge_type[idx] = MERGE_CHOICE_ONE]

\* parse_merge_info that gives the first flag converted to
\* existing_to_new_unique and the second to new_to_existing_unique
ParseMergeInfoUnswapped(merge_info) ==
    LET flags == convert_merge_type_to_bool(
                     IF "type" \in DOMAIN merge_info THEN merge_info.type
                     ELSE <<MERGE_CHOICE_MANY, MERGE_CHOICE_MANY>>)
    IN  [primary_merge_fields |->
            IF "primary_fields" \in DOMAIN merge_info
              THEN merge_info.primary_fields ELSE <<>>,
         secondary_merge_fields |->
            IF "secondary_fields" \in DOMAIN merge_info
              THEN merge_info.secondary_fields ELSE <<>>,
         existing_to_new_unique |-> flags[1],
         new_to_existing_unique |-> flags[2]]

\* AnnotationMerge.parse_merge_info; merge_info is a dict that holds any of
\* the three keys (merge_info.get with a default for each).  The first flag
\* converted is new_to_existing_unique, the second is existing_to_new_unique.
parse_merge_info(merge_info) ==
    LET flags == convert_merge_type_to_bool(
                     IF "type" \in DOMAIN merge_info THEN merge_info.type
                     ELSE <<MERGE_CHOICE_MANY, MERGE_CHOICE_MANY>>)
    IN  [primary_merge_fields |->
            IF "primary_fields" \in DOMAIN merge_info
              THEN merge_info.primary_fields ELSE <<>>,
         secondary_merge_fields |->
            IF "secondary_fields" \in DOMAIN merge_info
              THEN merge_info.secondary_fields ELSE <<>>,
         existing_to_new_unique |-> flags[2],
         new_to_existing_unique |-> flags[1]]

\* str.strip() of one segment, over the field names the model uses
StripSegment(segment) ==
    CASE segment = " g" -> "g"
      [] segment = "t " -> "t"
      [] OTHER -> segment

\* str.strip() on the segments of a string: white space goes from its two ends
strip(x) ==
    [i \in DOMAIN x |-> IF i = 1 \/ i = Len(x) THEN StripSegment(x[i]) ELSE x[i]]

\* AnnotationMerge.get_merge_fields: the stripped first pair; the list loses it
get_merge_fields(merge_field_list) ==
    [fields |-> [i \in DOMAIN Head(merge_field_list) |->
                    Str(strip(Head(merge_field_list)[i].s))],
     rest |-> Tail(merge_field_list)]

\* nested_getter given a list as field_to_get raises TypeError (unhashable
\* type) at item.get(field_to_get), in the first dict it comes to
RECURSIVE ListFieldRaises(_)
ListFieldRaises(item) ==
    \/ IsDict(item)
    \/ IsList(item) /\ \E i \in DOMAIN item.l : ListFieldRaises(item.l[i])

\* match_value_to_annotation raises TypeError: nested_getter raises, or
\* add_values_to_sets is handed keys it cannot iterate or cannot hash
MatchValueRaises(annotation, field, indices) ==
    /\ Truthy(field)
    /\ \E idx \in (IF indices # {} THEN indices ELSE DOMAIN annotation) :
          IF IsStr(field)
            THEN \/ GetterRaises(annotation[idx], field.s)
                 \/ NotIterable(nested_getter(annotation[idx], field.s, FALSE))
                 \/ HasUnhashable(nested_getter(annotation[idx], field.s, FALSE))
            ELSE ListFieldRaises(annotation[idx])

\* get_merge_fields raises AttributeError: x.strip() on a side that is no str
GetMergeFieldsRaises(merge_field_list) ==
    \E i \in DOMAIN Head(merge_field_list) : ~IsStr(Head(merge_field_list)[i])

\* The exception join_annotations ends with, "none" when it returns:
\* x.strip() on a side that is not a str, the unpacking of a pair that has
\* not two sides, the indexing of a record value that is no str or list.
JoinError(merge_fields, existing, new, e2n_edges, n2e_edges) ==
    LET pair == Head(merge_fields)
    IN  IF GetMergeFieldsRaises(merge_fields) THEN "AttributeError"
        ELSE IF Len(pair) # 2 THEN "ValueError"
        ELSE LET got == get_merge_fields(merge_fields)
                 existing_indices == IF e2n_edges # <<>> THEN DOMAIN e2n_edges[1] ELSE {}
                 new_indices == IF e2n_edges # <<>> THEN DOMAIN n2e_edges[1] ELSE {}
             IN  IF \/ MatchValueRaises(existing, got.fields[1], existing_indices)
                    \/ MatchValueRaises(new, got.fields[2], new_indices)
                   THEN "TypeError" ELSE "none"

\* AnnotationMerge.join_annotations: the merge field list and the two edge
\* lists it leaves behind
join_annotations(merge_fields, existing, new, e2n_edges, n2e_edges) ==
    LET got == get_merge_fields(merge_fields)
        existing_key == got.fields[1]
        new_key == got.fields[2]
        existing_indices == IF e2n_edges # <<>> THEN DOMAIN e2n_edges[1] ELSE {}
        new_indices == IF e2n_edges # <<>> THEN DOMAIN n2e_edges[1] ELSE {}
        existing_value_map ==
            match_value_to_annotation(existing, existing_key, existing_indices)
        new_value_map == match_value_to_annotation(new, new_key, new_indices)
        matches == match_annotations(existing_value_map, new_value_map)
    IN  [merge_fields |-> got.rest,
         existing_to_new_edges |-> Append(e2n_edges, matches[1]),
         new_to_existing_edges |-> Append(n2e_edges, matches[2])]

(***************************************************************************)
(* Inputs                                                                  *)
(***************************************************************************)
MaxBase == 2   \* longest base collection
MaxNew == 2    \* longest incoming collection
MaxEdgeMaps == 3   \* longest list of edge maps handed to intersect_edges alone

\* the prefix the incoming records are embedded under
prefix == <<"SRC">>

Rec1(k1, v1) == Dict([p \in {k1} |-> v1])
Rec2(k1, v1, k2, v2) == Dict([p \in {k1, k2} |-> IF p = k1 THEN v1 ELSE v2])
Leaf(x) == Str(<<x>>)

\* base records: a single-valued id; a multi-valued id with a nested field;
\* a record that already holds a list under the prefix
BasePool ==
    { Rec1(<<"id">>, Leaf("1")),
      Rec2(<<"id">>, List(<<Leaf("1"), Leaf("2")>>),
           <<"g">>, Rec1(<<"w">>, Leaf("x"))),
      Rec2(<<"id">>, Leaf("2"),
           prefix, List(<<Rec1(<<"ref">>, Leaf("0"))>>)) }

\* incoming records: one without and one with the second field
NewPool ==
    { Rec1(<<"ref">>, Leaf("2")),
      Rec2(<<"ref">>, Leaf("1"), <<"t">>, Leaf("x")) }

\* the non-empty collections of at most n records of S
Collections(S, n) == UNION {[1..m -> S] : m \in 1..n}

\* field pairs as written in a merge_info: (existing field, new field)
IdRef == <<Str(<<"id">>), Str(<<"ref">>)>>
GwT == <<Str(<<" g", "w">>), Str(<<"t ">>)>>

\* lists of field pairs, no pair twice
FieldLists == {<<>>, <<IdRef>>, <<GwT>>, <<IdRef, GwT>>, <<GwT, IdRef>>}

MergeTypes == [1..2 -> {MERGE_CHOICE_ONE, MERGE_CHOICE_MANY}]

MergeInfos ==
    [primary_fields : FieldLists, secondary_fields : FieldLists, type : MergeTypes]

(***************************************************************************)
(* AnnotationMerge.__init__                                                *)
(***************************************************************************)
Init ==
    \E existing \in Collections(BasePool, MaxBase),
       new \in Collections(NewPool, MaxNew),
       merge_info \in MergeInfos :
        LET parsed == parse_merge_info(merge_info)
        IN  /\ existing_annotation = existing
            /\ new_annotation = new
            /\ primary_merge_fields = parsed.primary_merge_fields
            /\ secondary_merge_fields = parsed.secondary_merge_fields
            /\ existing_to_new_unique = parsed.existing_to_new_unique
            /\ new_to_existing_unique = parsed.new_to_existing_unique
            /\ existing_to_new_edges = <<>>
            /\ new_to_existing_edges = <<>>
            /\ pc = "begin"
            /\ log = <<>>
            /\ call0 = [existing |-> existing, new |-> new, merge_info |-> merge_info]
            /\ applied = <<>>
            /\ args = <<>>
            /\ ret = <<>>
            /\ annotations = <<>>
            /\ metadata = <<>>
            /\ file_contents = <<>>
            /\ calls = <<>>

(***************************************************************************)
(* AnnotationMerge.add_merged_annotations                                  *)
(***************************************************************************)
\* The body of the loop over the kept edges: the record gets a fresh list
\* under the prefix, holding the matched incoming records (set iteration
\* order of small integers: ascending).
MergedRecord(existing_record, new, new_nodes) ==
    LET nodes == SortedSeq(new_nodes)
    IN  SetItem(existing_record, prefix, List([i \in DOMAIN nodes |-> new[nodes[i]]]))

LogEntry(msg, n) == [msg |-> msg, n |-> n]

\* add_merged_annotations that empties the prefix list of every base
\* position of the edge map before pruning, and fills those it keeps
AddMergedResetsCandidates(existing, new, e2n_edges, n2e_edges, e2n_unique, n2e_unique) ==
    LET pruned == prune_to_unique_edges(e2n_edges, n2e_edges, e2n_unique, n2e_unique)
        edges == IF e2n_edges # <<>> THEN pruned.kept_existing_to_new ELSE EmptyMap
        candidates == IF e2n_edges # <<>> THEN DOMAIN e2n_edges[1] ELSE {}
    IN  [existing_annotation |->
            [e \in DOMAIN existing |->
                IF e \in DOMAIN edges
                  THEN MergedRecord(existing[e], new, edges[e])
                ELSE IF e \in candidates
                  THEN SetItem(existing[e], prefix, List(<<>>))
                  ELSE existing[e]],
         merge_count |-> Cardinality(DOMAIN edges),
         existing_to_new_edges |->
            IF DOMAIN pruned.pruned_existing_to_new # {}
              THEN <<pruned.pruned_existing_to_new>> ELSE <<>>,
         new_to_existing_edges |->
            IF DOMAIN pruned.pruned_new_to_existing # {}
              THEN <<pruned.pruned_new_to_existing>> ELSE <<>>,
         kept |-> edges]

add_merged_annotations(existing, new, e2n_edges, n2e_edges, e2n_unique, n2e_unique) ==
    LET pruned == prune_to_unique_edges(e2n_edges, n2e_edges, e2n_unique, n2e_unique)
        edges == IF e2n_edges # <<>> THEN pruned.kept_existing_to_new ELSE EmptyMap
    IN  [existing_annotation |->
            [e \in DOMAIN existing |->
                IF e \in DOMAIN edges
                  THEN MergedRecord(existing[e], new, edges[e])
                  ELSE existing[e]],
         merge_count |-> Cardinality(DOMAIN edges),
         existing_to_new_edges |->
            IF DOMAIN pruned.pruned_existing_to_new # {}
              THEN <<pruned.pruned_existing_to_new>> ELSE <<>>,
         new_to_existing_edges |->
            IF DOMAIN pruned.pruned_new_to_existing # {}
              THEN <<pruned.pruned_new_to_existing>> ELSE <<>>,
         kept |-> edges]

(***************************************************************************)
(* AnnotationMerge.merge_annotations, step by step                         *)
(***************************************************************************)
\* number of secondary field pairs consumed so far
Round ==
    Len(parse_merge_info(call0.merge_info).secondary_merge_fields)
        - Len(secondary_merge_fields)

\* log.info("Merging fields to existing annotation under following prefix")
Begin ==
    /\ pc = "begin"
    /\ pc' = "primary"
    /\ log' = Append(log, LogEntry("merging", 0))
    /\ UNCHANGED <<existing_annotation, new_annotation, primary_merge_fields,
                   secondary_merge_fields, existing_to_new_unique,
                   new_to_existing_unique, existing_to_new_edges,
                   new_to_existing_edges, call0, applied,
                   args, ret, annotations, metadata, file_contents, calls>>

\* the test of "while self.primary_merge_fields:" passes and the call in
\* its body returns
JoinPrimaryEnabled ==
    /\ pc = "primary"
    /\ primary_merge_fields # <<>>
    /\ JoinError(primary_merge_fields, existing_annotation, new_annotation,
                 existing_to_new_edges, new_to_existing_edges) = "none"

\* while self.primary_merge_fields: self.join_annotations(...)
JoinPrimary ==
    /\ JoinPrimaryEnabled
    /\ LET joined == join_annotations(primary_merge_fields, existing_annotation,
                                      new_annotation, existing_to_new_edges,
                                      new_to_existing_edges)
       IN  /\ primary_merge_fields' = joined.merge_fields
           /\ existing_to_new_edges' = joined.existing_to_new_edges
           /\ new_to_existing_edges' = joined.new_to_existing_edges
    /\ UNCHANGED <<existing_annotation, new_annotation, secondary_merge_fields,
                   existing_to_new_unique, new_to_existing_unique, pc, log, call0,
                   applied,
                   args, ret, annotations, metadata, file_contents, calls>>

\* the two intersect_edges calls after the primary joins
IntersectPrimary ==
    /\ pc = "primary"
    /\ primary_merge_fields = <<>>
    /\ existing_to_new_edges' = intersect_edges(existing_to_new_edges)
    /\ new_to_existing_edges' = intersect_edges(new_to_existing_edges)
    /\ pc' = "apply"
    /\ UNCHANGED <<existing_annotation, new_annotation, primary_merge_fields,
                   secondary_merge_fields, existing_to_new_unique,
                   new_to_existing_unique, log, call0, applied,
                   args, ret, annotations, metadata, file_contents, calls>>

\* self.add_merged_annotations(), after the primary or a secondary intersection
AddMerged ==
    /\ pc = "apply"
    /\ LET added == add_merged_annotations(existing_annotation, new_annotation,
                                           existing_to_new_edges, new_to_existing_edges,
                                           existing_to_new_unique, new_to_existing_unique)
       IN  /\ existing_annotation' = added.existing_annotation
           /\ existing_to_new_edges' = added.existing_to_new_edges
           /\ new_to_existing_edges' = added.new_to_existing_edges
           /\ log' = Append(log, LogEntry("merged", added.merge_count))
           /\ applied' = Append(applied,
                                [round |-> Round,
                                 kept |-> added.kept,
                                 pruned |-> IF added.existing_to_new_edges # <<>>
                                              THEN added.existing_to_new_edges[1]
                                              ELSE EmptyMap])
    /\ pc' = "secondary"
    /\ UNCHANGED <<new_annotation, primary_merge_fields, secondary_merge_fields,
                   existing_to_new_unique, new_to_existing_unique, call0,
                   args, ret, annotations, metadata, file_contents, calls>>

\* the test of the secondary loop without its first operand
JoinSecondaryWithoutEdges ==
    /\ pc = "secondary"
    /\ secondary_merge_fields # <<>>
    /\ JoinError(secondary_merge_fields, existing_annotation, new_annotation,
                 existing_to_new_edges, new_to_existing_edges) = "none"

\* the test of "while self.existing_to_new_edges and
\* self.secondary_merge_fields:" passes and the call in its body returns
JoinSecondaryEnabled ==
    /\ pc = "secondary"
    /\ existing_to_new_edges # <<>>
    /\ secondary_merge_fields # <<>>
    /\ JoinError(secondary_merge_fields, existing_annotation, new_annotation,
                 existing_to_new_edges, new_to_existing_edges) = "none"

\* while self.existing_to_new_edges and self.secondary_merge_fields: join
JoinSecondary ==
    /\ JoinSecondaryEnabled
    /\ LET joined == join_annotations(secondary_merge_fields, existing_annotation,
                                      new_annotation, existing_to_new_edges,
                                      new_to_existing_edges)
       IN  /\ secondary_merge_fields' = joined.merge_fields
           /\ existing_to_new_edges' = joined.existing_to_new_edges
           /\ new_to_existing_edges' = joined.new_to_existing_edges
    /\ pc' = "intersect"
    /\ UNCHANGED <<existing_annotation, new_annotation, primary_merge_fields,
                   existing_to_new_unique, new_to_existing_unique, log, call0,
                   applied,
                   args, ret, annotations, metadata, file_contents, calls>>

\* the two intersect_edges calls of a secondary round
IntersectSecondary ==
    /\ pc = "intersect"
    /\ existing_to_new_edges' = intersect_edges(existing_to_new_edges)
    /\ new_to_existing_edges' = intersect_edges(new_to_existing_edges)
    /\ pc' = "apply"
    /\ UNCHANGED <<existing_annotation, new_annotation, primary_merge_fields,
                   secondary_merge_fields, existing_to_new_unique,
                   new_to_existing_unique, log, call0, applied,
                   args, ret, annotations, metadata, file_contents, calls>>

\* a report that is not skipped when the edge list is empty
UnmatchedLogAlways(e2n_edges) ==
    <<LogEntry("unmatched",
               IF e2n_edges # <<>> THEN Cardinality(DOMAIN e2n_edges[1]) ELSE 0)>>

\* What merge_annotations logs after the loops: the count of existing
\* annotations left in the edge map, only when the edge list is not empty
UnmatchedLog(e2n_edges) ==
    IF e2n_edges # <<>>
      THEN <<LogEntry("unmatched", Cardinality(DOMAIN e2n_edges[1]))>>
      ELSE <<>>

\* a clear() that leaves the list as it is
ClearKeepsRecords(annotation) == annotation

\* list.clear(): the list afterwards
clear(annotation) == <<>>

\* the end of merge_annotations: the report, new_annotation.clear()
Finish ==
    /\ pc = "secondary"
    /\ ~(existing_to_new_edges # <<>> /\ secondary_merge_fields # <<>>)
    /\ log' = log \o UnmatchedLog(existing_to_new_edges)
                  \o <<LogEntry("finished", 0)>>
    /\ new_annotation' = clear(new_annotation)
    /\ pc' = "done"
    /\ UNCHANGED <<existing_annotation, primary_merge_fields, secondary_merge_fields,
                   existing_to_new_unique, new_to_existing_unique,
                   existing_to_new_edges, new_to_existing_edges, call0, applied,
                   args, ret, annotations, metadata, file_contents, calls>>

Next ==
    \/ Begin
    \/ JoinPrimary
    \/ IntersectPrimary
    \/ AddMerged
    \/ JoinSecondary
    \/ IntersectSecondary
    \/ Finish

Spec == Init /\ [][Next]_vars

\* The calls followed to their end: one base record, up to MaxNew incoming
\* records, any merge_info of the inputs.
InitFair ==
    /\ Init
    /\ Len(call0.existing) = 1

\* merge_annotations runs in one thread, and a statement that can be
\* executed is executed: weak fairness of every step.  For the two joins
\* WF_vars is written out, []<>(not enabled) \/ []<>(step taken): beyond
\* its guard a join only assigns, and it shortens its field list, so the
\* guard is what ENABLED <<Join...>>_vars says.
Fairness ==
    /\ WF_vars(Begin)
    /\ []<>(~JoinPrimaryEnabled) \/ []<><<JoinPrimary>>_vars
    /\ WF_vars(IntersectPrimary)
    /\ WF_vars(AddMerged)
    /\ []<>(~JoinSecondaryEnabled) \/ []<><<JoinSecondary>>_vars
    /\ WF_vars(IntersectSecondary)
    /\ WF_vars(Finish)

FairSpec == InitFair /\ [][Next]_vars /\ Fairness

(***************************************************************************)
(* Merge calls on any merge_info and any records: the call can raise       *)
(***************************************************************************)
\* a join of merge_annotations raises: the pair is off the list it was popped
\* from, the exception leaves merge_annotations, nothing else has changed
JoinRaises ==
    /\ \/ /\ pc = "primary"
          /\ primary_merge_fields # <<>>
          /\ LET error == JoinError(primary_merge_fields, existing_annotation,
                                    new_annotation, existing_to_new_edges,
                                    new_to_existing_edges)
             IN  error # "none" /\ ret' = <<"raised", error>>
          /\ primary_merge_fields' = Tail(primary_merge_fields)
          /\ UNCHANGED secondary_merge_fields
       \/ /\ pc = "secondary"
          /\ existing_to_new_edges # <<>>
          /\ secondary_merge_fields # <<>>
          /\ LET error == JoinError(secondary_merge_fields, existing_annotation,
                                    new_annotation, existing_to_new_edges,
                                    new_to_existing_edges)
             IN  error # "none" /\ ret' = <<"raised", error>>
          /\ secondary_merge_fields' = Tail(secondary_merge_fields)
          /\ UNCHANGED primary_merge_fields
    /\ pc' = "raised"
    /\ UNCHANGED <<existing_annotation, new_annotation, existing_to_new_unique,
                   new_to_existing_unique, existing_to_new_edges,
                   new_to_existing_edges, log, call0, applied, args,
                   annotations, metadata, file_contents, calls>>

\* records with a str and with an int under the join field
AnyBasePool == {Rec1(<<"id">>, Leaf("1")), Rec1(<<"id">>, IntVal(1))}
AnyNewPool == {Rec1(<<"ref">>, Leaf("1")), Rec1(<<"ref">>, IntVal(1))}

\* field pairs with one side and with three sides
IdAlone == <<Str(<<"id">>)>>
IdRefRef == <<Str(<<"id">>), Str(<<"ref">>), Str(<<"ref">>)>>

\* a dict restricted to some of its keys
Restrict(d, keys) == [key \in keys |-> d[key]]

\* merge_info dicts: any of the three keys absent, pairs of any shape,
\* cardinality tokens that are neither "one" nor "many"
AnyMergeInfos ==
    {Restrict(full, keys) :
        full \in [primary_fields : {<<IdRef>>, <<IdAlone>>, <<IdRef, IdRefRef>>},
                  secondary_fields : {<<IdRef>>, <<IdAlone>>},
                  type : {<<MERGE_CHOICE_ONE, MERGE_CHOICE_ONE>>,
                          <<MERGE_CHOICE_MANY, MERGE_CHOICE_ONE>>,
                          <<MERGE_CHOICE_ONE, MERGE_CHOICE_MANY>>,
                          <<"uno", MERGE_CHOICE_MANY>>}],
        keys \in SUBSET {"primary_fields", "secondary_fields", "type"}}

\* AnnotationMerge.__init__ on such arguments
InitAny ==
    \E existing \in Collections(AnyBasePool, MaxBase),
       new \in Collections(AnyNewPool, MaxNew),
       merge_info \in AnyMergeInfos :
        LET parsed == parse_merge_info(merge_info)
        IN  /\ existing_annotation = existing
            /\ new_annotation = new
            /\ primary_merge_fields = parsed.primary_merge_fields
            /\ secondary_merge_fields = parsed.secondary_merge_fields
            /\ existing_to_new_unique = parsed.existing_to_new_unique
            /\ new_to_existing_unique = parsed.new_to_existing_unique
            /\ existing_to_new_edges = <<>>
            /\ new_to_existing_edges = <<>>
            /\ pc = "begin"
            /\ log = <<>>
            /\ call0 = [existing |-> existing, new |-> new, merge_info |-> merge_info]
            /\ applied = <<>>
            /\ args = <<>>
            /\ ret = <<>>
            /\ annotations = <<>>
            /\ metadata = <<>>
            /\ file_contents = <<>>
            /\ calls = <<>>

NextAny == Next \/ JoinRaises

SpecAny == InitAny /\ [][NextAny]_vars

(***************************************************************************)
(* The functions on their own: one call of one function                    *)
(***************************************************************************)
\* records for nested_getter: a key that holds the separator beside a nested
\* dict the same path reaches; nested dicts, lists and leaves; missing keys
GetterItems ==
    { Rec2(<<"g", "w">>, Leaf("a"), <<"g">>, Rec1(<<"w">>, Leaf("b"))),
      Rec2(<<"g", "w">>, Str(EmptyString), <<"g">>, Rec1(<<"w">>, Leaf("b"))),
      Rec1(<<"g", "w">>, Leaf("a")),
      Rec1(<<"g">>, Rec1(<<"w">>, Leaf("b"))),
      Rec1(<<"g">>, Rec1(<<"w">>, List(<<Leaf("b"), Leaf("c")>>))),
      Rec1(<<"g">>, List(<<Rec1(<<"w">>, Leaf("b")), Rec1(<<"w">>, Leaf("b"))>>)),
      Rec1(<<"g">>, Rec1(<<"v">>, Leaf("b"))),
      Rec1(<<"g">>, Leaf("b")),
      Rec1(<<"g">>, IntVal(1)),
      Rec1(<<"g">>, Dict(EmptyMap)),
      Rec1(<<"g">>, List(<<Rec1(<<"w">>, IntVal(1))>>)),
      Rec1(<<"g">>, Rec1(<<"w">>, Rec1(<<"x">>, Leaf("c")))),
      Rec1(<<"g">>, Rec1(<<"w", "x">>, Leaf("c"))),
      Rec1(<<"w">>, Leaf("b")),
      Rec1(<<"v">>, Leaf("b")) }

GetterFields == {<<"g", "w">>, <<"g">>, <<"w">>, <<"h">>, <<"g", "w", "x">>}

\* field pairs whose sides are lists of field names
ListPair == <<List(<<Str(<<"id">>)>>), List(<<Str(<<"ref">>)>>)>>
MixedPair == <<List(<<Str(<<"id">>), Str(<<"g", "w">>)>>), Str(<<"ref">>)>>

\* annotations and fields for match_value_to_annotation
MatchAnnotations ==
    { <<>>,
      <<Rec1(<<"id">>, Leaf("1"))>>,
      <<Rec1(<<"id">>, Leaf("1")), Rec1(<<"ref">>, Leaf("1"))>>,
      <<Rec1(<<"id">>, Leaf("1")), Rec1(<<"id">>, Leaf("2"))>>,
      <<Rec1(<<"id">>, Leaf("1")), Rec1(<<"id">>, Leaf("2")), Rec1(<<"id">>, Leaf("1"))>>,
      <<Rec1(<<"id">>, List(<<Leaf("1"), Leaf("2")>>)), Rec1(<<"ref">>, Leaf("1")),
        Rec1(<<"id">>, Leaf("2"))>>,
      <<Leaf("1")>> }

MatchFields ==
    { Str(<<"id">>), Str(EmptyString), List(<<>>), List(<<Str(<<"id">>)>>),
      List(<<Str(<<"id">>), Str(<<"ref">>)>>) }

\* records for nested_setter: empty, flat, nested, a key that holds the
\* separator (alone, beside the nested dict, holding None), a nested value
\* that is no dict
SetterItems ==
    { Dict(EmptyMap),
      Rec1(<<"foo">>, Leaf("bar")),
      Rec1(<<"foo">>, Rec1(<<"fu">>, Leaf("bar"))),
      Rec1(<<"foo", "fu">>, Leaf("bar")),
      Rec2(<<"foo", "fu">>, Leaf("bar"), <<"foo">>, Rec1(<<"fu">>, Leaf("b"))),
      Rec1(<<"foo", "fu">>, None),
      Rec1(<<"foo">>, None),
      Rec1(<<"foo">>, Dict(EmptyMap)),
      Rec1(<<"foo">>, List(<<>>)),
      Rec2(<<"foo">>, Rec1(<<"fu">>, Rec1(<<"fa">>, Leaf("b"))), <<"fi">>, Leaf("c")) }

\* value maps as match_value_to_annotation builds them: each of up to three
\* leaf values with the non-empty set of the positions that hold it
ValueMaps ==
    UNION { [values -> (SUBSET (1..2)) \ {{}}] :
              values \in SUBSET {Leaf("A"), Leaf("B"), Leaf("C")} }

\* edge maps as match_annotations builds them: positions with the non-empty
\* set of the positions they are linked to
EdgeMaps ==
    UNION { [positions -> (SUBSET (1..2)) \ {{}}] : positions \in SUBSET (1..2) }

\* the calls: a function and its arguments
FunctionCalls ==
    [fn : {"parse_merge_info"}, merge_info : AnyMergeInfos \cup MergeInfos]
    \cup [fn : {"get_merge_fields"},
          merge_field_list : {<<IdRef>>, <<GwT, IdRef>>, <<ListPair>>, <<MixedPair, IdRef>>}]
    \cup {call \in [fn : {"match_value_to_annotation"}, annotation : MatchAnnotations,
                     field : MatchFields, indices : SUBSET (1..3)] :
              call.indices \subseteq DOMAIN call.annotation}
    \cup [fn : {"nested_getter"}, item : GetterItems, field_to_get : GetterFields,
          string_return : BOOLEAN]
    \cup [fn : {"nested_setter"}, item : SetterItems,
          field_to_set : {<<"foo">>, <<"fu">>, <<"foo", "fu">>, <<"foo", "fi">>,
                          <<"foo", "fu", "fa">>, <<"fe", "fi", "fo">>},
          value : {None, Leaf("bur")}, delete_field : BOOLEAN]
    \cup [fn : {"match_annotations"}, existing_value_map : ValueMaps,
          new_value_map : ValueMaps]
    \cup [fn : {"intersect_edges"},
          list_of_edges : UNION {[1..n -> EdgeMaps] : n \in 0..MaxEdgeMaps}]
    \cup { LET es == {edge[1] : edge \in edges}
               ns == {edge[2] : edge \in edges}
           IN  [fn |-> "prune_to_unique_edges",
                existing_to_new_edges |->
                    <<[e \in es |-> {n \in ns : <<e, n>> \in edges}]>>,
                new_to_existing_edges |->
                    <<[n \in ns |-> {e \in es : <<e, n>> \in edges}]>>,
                existing_to_new_unique |-> unique[1],
                new_to_existing_unique |-> unique[2]] :
           edges \in SUBSET ((1..2) \X (1..3)), unique \in BOOLEAN \X BOOLEAN }

InitFunctions ==
    /\ args \in FunctionCalls
    /\ ret = <<>>
    /\ annotations = <<>>
    /\ metadata = <<>>
    /\ file_contents = <<>>
    /\ calls = <<>>
    /\ pc = "call"
    /\ existing_annotation = <<>>
    /\ new_annotation = <<>>
    /\ primary_merge_fields = <<>>
    /\ secondary_merge_fields = <<>>
    /\ existing_to_new_unique = FALSE
    /\ new_to_existing_unique = FALSE
    /\ existing_to_new_edges = <<>>
    /\ new_to_existing_edges = <<>>
    /\ log = <<>>
    /\ call0 = <<>>
    /\ applied = <<>>

\* the call returns value / the call raises error
Returns(value) ==
    /\ ret' = <<"returned", value>>
    /\ pc' = "returned"
    /\ UNCHANGED <<existing_annotation, new_annotation, primary_merge_fields,
                   secondary_merge_fields, existing_to_new_unique,
                   new_to_existing_unique, existing_to_new_edges,
                   new_to_existing_edges, log, call0, applied, args,
                   annotations, metadata, file_contents, calls>>

Raises(error) ==
    /\ ret' = <<"raised", error>>
    /\ pc' = "returned"
    /\ UNCHANGED <<existing_annotation, new_annotation, primary_merge_fields,
                   secondary_merge_fields, existing_to_new_unique,
                   new_to_existing_unique, existing_to_new_edges,
                   new_to_existing_edges, log, call0, applied, args,
                   annotations, metadata, file_contents, calls>>

CallParseMergeInfo ==
    /\ pc = "call" /\ args.fn = "parse_merge_info"
    /\ Returns(parse_merge_info(args.merge_info))

CallGetMergeFields ==
    /\ pc = "call" /\ args.fn = "get_merge_fields"
    /\ IF GetMergeFieldsRaises(args.merge_field_list)
         THEN Raises("AttributeError")
         ELSE Returns(get_merge_fields(args.merge_field_list).fields)

CallMatchValueToAnnotation ==
    /\ pc = "call" /\ args.fn = "match_value_to_annotation"
    /\ IF MatchValueRaises(args.annotation, args.field, args.indices)
         THEN Raises("TypeError")
         ELSE Returns(match_value_to_annotation(args.annotation, args.field,
                                                args.indices))

CallNestedGetter ==
    /\ pc = "call" /\ args.fn = "nested_getter"
    /\ IF GetterRaises(args.item, args.field_to_get)
         THEN Raises("TypeError")
         ELSE Returns(nested_getter(args.item, args.field_to_get, args.string_return))

\* the call returns None; what is returned here is item after the call
CallNestedSetter ==
    /\ pc = "call" /\ args.fn = "nested_setter"
    /\ Returns(nested_setter(args.item, args.field_to_set, args.value,
                             args.delete_field))

CallMatchAnnotations ==
    /\ pc = "call" /\ args.fn = "match_annotations"
    /\ Returns(match_annotations(args.existing_value_map, args.new_value_map))

\* the call returns None; what is returned here is the list after the call
CallIntersectEdges ==
    /\ pc = "call" /\ args.fn = "intersect_edges"
    /\ Returns(intersect_edges(args.list_of_edges))

\* the call returns the pruned maps; what is returned here holds as well
\* the first maps of the two edge lists after the call
CallPruneToUniqueEdges ==
    /\ pc = "call" /\ args.fn = "prune_to_unique_edges"
    /\ Returns(prune_to_unique_edges(args.existing_to_new_edges,
                                     args.new_to_existing_edges,
                                     args.existing_to_new_unique,
                                     args.new_to_existing_unique))

NextFunctions ==
    \/ CallParseMergeInfo
    \/ CallGetMergeFields
    \/ CallMatchValueToAnnotation
    \/ CallNestedGetter
    \/ CallNestedSetter
    \/ CallMatchAnnotations
    \/ CallIntersectEdges
    \/ CallPruneToUniqueEdges

SpecFunctions == InitFunctions /\ [][NextFunctions]_vars

(***************************************************************************)
(* GeneAnnotation: create_annotation and update_annotation                 *)
(***************************************************************************)
\* A JSON object of the input is a function from its keys; a value whose
\* type the code or the schema tells apart is a Python value as above.
\* dict.get(key, default) on a JSON object
KeyGet(d, key, default) == IF key \in DOMAIN d THEN d[key] ELSE default

CYTOBAND == <<"cytoband">>
PARSERS_AVAILABLE == {"TSV", "CSV", "GTF", "GenBank", "UniProtDAT", "XML"}

\* schemas.ANNOTATION_SOURCE, for the properties the sources here hold
SourceProperties == {"files", "prefix", "parser", "source", "merge", "metadata"}

\* the schema of the prefix: a string other than "cytoband"
ValidPrefix(value) == IsStr(value) /\ value # Str(CYTOBAND)

\* one side of a field pair: a string, or a list of one or more strings
ValidSide(side) ==
    \/ IsStr(side)
    \/ IsList(side) /\ side.l # <<>> /\ \A i \in DOMAIN side.l : IsStr(side.l[i])

ValidFieldPairs(pairs) ==
    \A i \in DOMAIN pairs :
        Len(pairs[i]) = 2 /\ \A j \in DOMAIN pairs[i] : ValidSide(pairs[i][j])

ValidMerge(merge) ==
    /\ {"primary_fields", "type"} \subseteq DOMAIN merge
    /\ DOMAIN merge \subseteq {"primary_fields", "secondary_fields", "type"}
    /\ ValidFieldPairs(merge.primary_fields)
    /\ ValidFieldPairs(KeyGet(merge, "secondary_fields", <<>>))
    /\ Len(merge.type) = 2
    /\ \A i \in DOMAIN merge.type : merge.type[i] \in {MERGE_CHOICE_ONE, MERGE_CHOICE_MANY}

ValidParser(parser) ==
    /\ "type" \in DOMAIN parser
    /\ DOMAIN parser \subseteq {"type", "parameters"}
    /\ parser.type \in PARSERS_AVAILABLE

ValidSource(source) ==
    /\ {"files", "prefix", "parser"} \subseteq DOMAIN source
    /\ DOMAIN source \subseteq SourceProperties
    /\ ValidPrefix(source.prefix)
    /\ ValidParser(source.parser)
    /\ "merge" \in DOMAIN source => ValidMerge(source.merge)

\* validator.is_valid(json_input) for schemas.CREATE_SCHEMA (an array of
\* sources) and schemas.UPDATE_SCHEMA (an object with add, replace, remove)
is_valid(schema, json_input) ==
    IF schema = "CREATE_SCHEMA"
      THEN \A i \in DOMAIN json_input : ValidSource(json_input[i])
      ELSE /\ DOMAIN json_input \subseteq {"add", "replace", "remove"}
           /\ \A key \in DOMAIN json_input \cap {"add", "replace"} :
                \A i \in DOMAIN json_input[key] : ValidSource(json_input[key][i])
           /\ \A i \in DOMAIN KeyGet(json_input, "remove", <<>>) :
                ValidPrefix(json_input.remove[i])

\* validate_json that finds every input valid
ValidateJsonAcceptsAll(schema, json_input) == "none"

\* GeneAnnotation.validate_json: the exception it raises, "none" when it returns
validate_json(schema, json_input) ==
    IF is_valid(schema, json_input) THEN "none" ELSE "JSONInputError"

\* GeneAnnotation.parse_file: contents holds "metadata" and "annotation", or
\* nothing when there is no file; an empty or absent part is not loaded
parse_file(self_annotations, self_metadata, contents) ==
    LET loaded_metadata == KeyGet(contents, "metadata", <<>>)
        loaded_annotations == KeyGet(contents, "annotation", <<>>)
    IN  [annotations |-> IF loaded_annotations # <<>> THEN loaded_annotations
                         ELSE self_annotations,
         metadata |-> IF DOMAIN loaded_metadata # {} THEN loaded_metadata
                      ELSE self_metadata]

\* the body of the loop of remove_identifier for one record
RemoveFromRecord(item, identifier) ==
    LET without == IF Truthy(Get(item, identifier)) THEN DelItem(item, identifier)
                   ELSE item
        cytoband == Get(without, CYTOBAND)
    IN  IF IsDict(cytoband) /\ Truthy(Get(cytoband, identifier))
          THEN SetItem(without, CYTOBAND, DelItem(cytoband, identifier))
          ELSE without

\* GeneAnnotation.remove_identifier; identifier is the prefix, or None
remove_identifier(self_annotations, self_metadata, identifier) ==
    IF ~IsStr(identifier)
      THEN [annotations |-> self_annotations, metadata |-> self_metadata]
      ELSE [annotations |-> [i \in DOMAIN self_annotations |->
                                RemoveFromRecord(self_annotations[i], identifier.s)],
            metadata |-> [p \in DOMAIN self_metadata \ {identifier.s} |->
                                self_metadata[p]]]

\* AnnotationMerge.merge_annotations as add_source sees it.  Each operator
\* below is one stretch of its body; what a stretch computes is handed to
\* the next as an argument.

RECURSIVE JoinAll(_, _, _, _, _)

\* a join of the first loop is over: it raised, or the loop goes on
JoinAllNext(existing, new, e2n_edges, n2e_edges, error, joined) ==
    IF error # "none"
      THEN [existing_to_new_edges |-> e2n_edges, new_to_existing_edges |-> n2e_edges,
            error |-> error]
      ELSE JoinAll(joined.merge_fields, existing, new,
                   joined.existing_to_new_edges, joined.new_to_existing_edges)

\* while self.primary_merge_fields: self.join_annotations(...)
JoinAll(merge_fields, existing, new, e2n_edges, n2e_edges) ==
    IF merge_fields = <<>>
      THEN [existing_to_new_edges |-> e2n_edges, new_to_existing_edges |-> n2e_edges,
            error |-> "none"]
      ELSE JoinAllNext(existing, new, e2n_edges, n2e_edges,
                       JoinError(merge_fields, existing, new, e2n_edges, n2e_edges),
                       join_annotations(merge_fields, existing, new, e2n_edges, n2e_edges))

RECURSIVE SecondaryRounds(_, _, _, _, _, _, _)

\* the end of a secondary round: add_merged_annotations has run
SecondaryApplied(new, merge_fields, e2n_unique, n2e_unique, added) ==
    SecondaryRounds(added.existing_annotation, new, merge_fields,
                    added.existing_to_new_edges, added.new_to_existing_edges,
                    e2n_unique, n2e_unique)

\* the join of a secondary round is over: it raised, or the round goes on
\* with the two intersections and add_merged_annotations
SecondaryJoined(existing, new, merge_fields, e2n_unique, n2e_unique, error, joined) ==
    IF error # "none"
      THEN [existing_annotation |-> existing, merge_fields |-> Tail(merge_fields),
            error |-> error]
      ELSE SecondaryApplied(new, joined.merge_fields, e2n_unique, n2e_unique,
                            add_merged_annotations(
                                existing, new,
                                intersect_edges(joined.existing_to_new_edges),
                                intersect_edges(joined.new_to_existing_edges),
                                e2n_unique, n2e_unique))

\* while self.existing_to_new_edges and self.secondary_merge_fields: ...
SecondaryRounds(existing, new, merge_fields, e2n_edges, n2e_edges, e2n_unique, n2e_unique) ==
    IF e2n_edges = <<>> \/ merge_fields = <<>>
      THEN [existing_annotation |-> existing, merge_fields |-> merge_fields,
            error |-> "none"]
      ELSE SecondaryJoined(existing, new, merge_fields, e2n_unique, n2e_unique,
                           JoinError(merge_fields, existing, new, e2n_edges, n2e_edges),
                           join_annotations(merge_fields, existing, new,
                                            e2n_edges, n2e_edges))

\* the call is over: the base collection, the merge_info (its field lists
\* have lost what was popped) and the exception the call ended with
MergeLeft(merge_info, rounds) ==
    [existing_annotation |-> rounds.existing_annotation,
     merge_info |-> [key \in DOMAIN merge_info |->
                        CASE key = "primary_fields" -> <<>>
                          [] key = "secondary_fields" -> rounds.merge_fields
                          [] OTHER -> merge_info[key]],
     error |-> rounds.error]

\* the first add_merged_annotations has run: the secondary rounds follow
PrimaryApplied(new, merge_info, parsed, added) ==
    MergeLeft(merge_info,
              SecondaryRounds(added.existing_annotation, new,
                              parsed.secondary_merge_fields,
                              added.existing_to_new_edges, added.new_to_existing_edges,
                              parsed.existing_to_new_unique,
                              parsed.new_to_existing_unique))

\* the primary joins are over: one raised, or the two intersections and
\* add_merged_annotations follow
PrimaryJoined(existing, new, merge_info, parsed, primary) ==
    IF primary.error # "none"
      THEN [existing_annotation |-> existing, merge_info |-> merge_info,
            error |-> primary.error]
      ELSE PrimaryApplied(new, merge_info, parsed,
                          add_merged_annotations(
                              existing, new,
                              intersect_edges(primary.existing_to_new_edges),
                              intersect_edges(primary.new_to_existing_edges),
                              parsed.existing_to_new_unique,
                              parsed.new_to_existing_unique))

\* AnnotationMerge.__init__ has parsed merge_info: the primary joins follow
MergeParsed(existing, new, merge_info, parsed) ==
    PrimaryJoined(existing, new, merge_info, parsed,
                  JoinAll(parsed.primary_merge_fields, existing, new, <<>>, <<>>))

\* AnnotationMerge(existing, new, prefix, merge_info).merge_annotations()
merge_annotations(existing, new, merge_info) ==
    MergeParsed(existing, new, merge_info, parse_merge_info(merge_info))

RECURSIVE AddFiles(_, _, _, _, _)

\* the merge of one file is over: it raised, or the loop goes on with the
\* merge_info the merge left
AddFilesMerged(files, source_prefix, base_annotation, merged) ==
    IF merged.error # "none"
      THEN [annotations |-> merged.existing_annotation, error |-> merged.error]
      ELSE AddFiles(merged.existing_annotation, Tail(files), source_prefix,
                    base_annotation, merged.merge_info)

\* the loop of add_source over the files; a file stands for the records
\* SourceAnnotation(parser, ...).make_annotation() makes of it
AddFiles(self_annotations, files, source_prefix, base_annotation, merge_info) ==
    IF files = <<>> THEN [annotations |-> self_annotations, error |-> "none"]
    ELSE IF Head(files) = <<>>
      THEN AddFiles(self_annotations, Tail(files), source_prefix, base_annotation,
                    merge_info)
    ELSE IF base_annotation
      THEN AddFiles(self_annotations \o
                       [i \in DOMAIN Head(files) |->
                           Rec1(source_prefix.s, List(<<Head(files)[i]>>))],
                    Tail(files), source_prefix, base_annotation, merge_info)
    ELSE IF merge_info = None
      THEN \* AnnotationMerge.__init__: None has no attribute get
           [annotations |-> self_annotations, error |-> "AttributeError"]
    ELSE AddFilesMerged(files, source_prefix, base_annotation,
                        merge_annotations(self_annotations, Head(files), merge_info))

\* the end of add_source: self.metadata[prefix] = metadata
SourceAdded(self_metadata, source_prefix, source_metadata, added) ==
    [annotations |-> added.annotations,
     metadata |->
        IF added.error = "none" /\ Truthy(source_prefix) /\ Truthy(source_metadata)
          THEN [p \in DOMAIN self_metadata \cup {source_prefix.s} |->
                   IF p = source_prefix.s THEN source_metadata ELSE self_metadata[p]]
          ELSE self_metadata,
     error |-> added.error]

\* GeneAnnotation.add_source, for a source without cytoband parameters
add_source(self_annotations, self_metadata, annotation_metadata) ==
    SourceAdded(self_metadata,
                KeyGet(annotation_metadata, "prefix", None),
                KeyGet(annotation_metadata, "metadata", None),
                AddFiles(self_annotations,
                         KeyGet(annotation_metadata, "files", <<>>),
                         KeyGet(annotation_metadata, "prefix", None),
                         KeyGet(annotation_metadata, "source", FALSE),
                         KeyGet(annotation_metadata, "merge", None)))

RECURSIVE add_annotations(_, _, _)

\* a source of the list is added: add_source raised, or the loop goes on
AddAnnotationsNext(annotation_metadata, added) ==
    IF added.error # "none" THEN added
    ELSE add_annotations(added.annotations, added.metadata, Tail(annotation_metadata))

\* GeneAnnotation.add_annotations
add_annotations(self_annotations, self_metadata, annotation_metadata) ==
    IF annotation_metadata = <<>>
      THEN [annotations |-> self_annotations, metadata |-> self_metadata,
            error |-> "none"]
      ELSE AddAnnotationsNext(annotation_metadata,
                              add_source(self_annotations, self_metadata,
                                         Head(annotation_metadata)))

RECURSIVE replace_annotations(_, _, _)

\* a source of the list is replaced: add_source raised, or the loop goes on
ReplaceAnnotationsNext(annotation_metadata, added) ==
    IF added.error # "none" THEN added
    ELSE replace_annotations(added.annotations, added.metadata,
                             Tail(annotation_metadata))

\* the identifier of the source is removed: add_source follows
ReplaceRemoved(annotation_metadata, removed) ==
    ReplaceAnnotationsNext(annotation_metadata,
                           add_source(removed.annotations, removed.metadata,
                                      Head(annotation_metadata)))

\* GeneAnnotation.replace_annotations
replace_annotations(self_annotations, self_metadata, annotation_metadata) ==
    IF annotation_metadata = <<>>
      THEN [annotations |-> self_annotations, metadata |-> self_metadata,
            error |-> "none"]
      ELSE ReplaceRemoved(annotation_metadata,
                          remove_identifier(self_annotations, self_metadata,
                                            KeyGet(Head(annotation_metadata),
                                                   "prefix", None)))

RECURSIVE remove_annotations(_, _, _)

\* an identifier of the list is removed: the loop goes on
RemoveAnnotationsNext(annotation_metadata, removed) ==
    remove_annotations(removed.annotations, removed.metadata, Tail(annotation_metadata))

\* GeneAnnotation.remove_annotations: annotation[constants.PREFIX] needs a
\* dict with the key; on a str it raises TypeError
remove_annotations(self_annotations, self_metadata, annotation_metadata) ==
    IF annotation_metadata = <<>>
      THEN [annotations |-> self_annotations, metadata |-> self_metadata,
            error |-> "none"]
    ELSE IF ~IsDict(Head(annotation_metadata))
      THEN [annotations |-> self_annotations, metadata |-> self_metadata,
            error |-> "TypeError"]
    ELSE IF <<"prefix">> \notin DOMAIN Head(annotation_metadata).d
      THEN [annotations |-> self_annotations, metadata |-> self_metadata,
            error |-> "KeyError"]
    ELSE RemoveAnnotationsNext(annotation_metadata,
                               remove_identifier(self_annotations, self_metadata,
                                                 Head(annotation_metadata).d[<<"prefix">>]))

\* the records of the source files, and what the existing file holds
BaseFile == <<Rec1(<<"id">>, Leaf("1")), Rec1(<<"id">>, Leaf("2"))>>
MergedFile == <<Rec1(<<"ref">>, Leaf("1"))>>
BASE == <<"BASE">>

StoredAnnotations ==
    << SetItem(Rec2(BASE, List(<<Rec1(<<"id">>, Leaf("1"))>>),
                    prefix, List(<<Rec1(<<"ref">>, Leaf("1"))>>)),
               CYTOBAND, Rec1(prefix, Leaf("1p"))),
       Rec1(BASE, List(<<Rec1(<<"id">>, Leaf("2"))>>)) >>

StoredMetadata ==
    [p \in {BASE, prefix} |-> Rec1(<<"version">>, Leaf(IF p = BASE THEN "1" ELSE "2"))]

FileContents ==
    { <<>>, [metadata |-> StoredMetadata, annotation |-> StoredAnnotations] }

\* what self.annotations and self.metadata hold when the method is called:
\* nothing (a new GeneAnnotation), or one base source added before
PriorStates ==
    { [annotations |-> <<>>, metadata |-> <<>>],
      [annotations |-> <<Rec1(BASE, List(<<Rec1(<<"id">>, Leaf("1"))>>))>>,
       metadata |-> [p \in {BASE} |-> Rec1(<<"version">>, Leaf("1"))]] }

\* sources that validate: a base source, a source to merge, and a source
\* with neither "source" nor "merge"
BaseSource ==
    [files |-> <<BaseFile>>, prefix |-> Str(BASE), parser |-> [type |-> "TSV"],
     source |-> TRUE, metadata |-> Rec1(<<"version">>, Leaf("1"))]

MergedSource ==
    [files |-> <<MergedFile>>, prefix |-> Str(prefix), parser |-> [type |-> "TSV"],
     merge |-> [primary_fields |-> <<<<Str(<<"BASE", "id">>), Str(<<"ref">>)>>>>,
                type |-> <<MERGE_CHOICE_MANY, MERGE_CHOICE_MANY>>],
     metadata |-> Rec1(<<"version">>, Leaf("3"))]

PlainSource ==
    [files |-> <<MergedFile>>, prefix |-> Str(prefix), parser |-> [type |-> "TSV"]]

\* sources that do not validate: no parser; the prefix "cytoband"; a merge
\* without type; a parser without type and a property the schema does not have
NoParserSource == [files |-> <<BaseFile>>, prefix |-> Str(BASE), source |-> TRUE]

CytobandSource ==
    [files |-> <<BaseFile>>, prefix |-> Str(CYTOBAND), parser |-> [type |-> "TSV"],
     source |-> TRUE]

NoTypeSource ==
    [files |-> <<MergedFile>>, prefix |-> Str(prefix), parser |-> [type |-> "TSV"],
     merge |-> [primary_fields |-> <<<<Str(<<"BASE", "id">>), Str(<<"ref">>)>>>>]]

OtherSource ==
    [files |-> <<BaseFile>>, prefix |-> Str(BASE), parser |-> [foo |-> "bar"],
     source |-> TRUE, foo |-> "bar"]

SourceLists ==
    { <<>>, <<BaseSource>>, <<MergedSource>>, <<BaseSource, MergedSource>>,
      <<PlainSource>>, <<NoParserSource>>, <<CytobandSource>>,
      <<BaseSource, NoTypeSource>>, <<OtherSource>> }

\* lists for "remove": prefixes (what the schema asks for), dicts with a
\* prefix (what remove_annotations reads)
RemoveLists ==
    { <<>>, <<Str(prefix)>>, <<Str(BASE), Str(prefix)>>, <<Str(CYTOBAND)>>,
      <<Rec1(<<"prefix">>, Str(prefix))>> }

UpdateInputs ==
    { Restrict(full, keys) :
        full \in [add : SourceLists, replace : SourceLists, remove : RemoveLists,
                  delete : {<<Str(prefix)>>}],
        keys \in (SUBSET {"add", "replace", "remove"}) \cup {{"add", "delete"}} }

MethodCalls ==
    [fn : {"create_annotation"}, json_input : SourceLists]
    \cup [fn : {"update_annotation"}, json_input : UpdateInputs]

InitGeneAnnotation ==
    /\ args \in MethodCalls
    /\ file_contents \in FileContents
    /\ call0 \in PriorStates
    /\ annotations = call0.annotations
    /\ metadata = call0.metadata
    /\ calls = <<>>
    /\ ret = <<>>
    /\ pc = "call"
    /\ existing_annotation = <<>>
    /\ new_annotation = <<>>
    /\ primary_merge_fields = <<>>
    /\ secondary_merge_fields = <<>>
    /\ existing_to_new_unique = FALSE
    /\ new_to_existing_unique = FALSE
    /\ existing_to_new_edges = <<>>
    /\ new_to_existing_edges = <<>>
    /\ log = <<>>
    /\ applied = <<>>

\* a method of GeneAnnotation has been called: what it left in
\* self.annotations and self.metadata; the caller goes on, or ends with the
\* exception
Called(method, result, next_pc) ==
    /\ calls' = Append(calls, method)
    /\ annotations' = result.annotations
    /\ metadata' = result.metadata
    /\ IF result.error = "none"
         THEN pc' = next_pc /\ ret' = ret
         ELSE pc' = "raised" /\ ret' = <<"raised", result.error>>
    /\ UNCHANGED <<existing_annotation, new_annotation, primary_merge_fields,
                   secondary_merge_fields, existing_to_new_unique,
                   new_to_existing_unique, existing_to_new_edges,
                   new_to_existing_edges, log, call0, applied, args, file_contents>>

\* if to_remove: ... (and to_replace, to_add) with an empty or absent list
Skipped(next_pc) ==
    /\ pc' = next_pc
    /\ UNCHANGED <<existing_annotation, new_annotation, primary_merge_fields,
                   secondary_merge_fields, existing_to_new_unique,
                   new_to_existing_unique, existing_to_new_edges,
                   new_to_existing_edges, log, call0, applied, args, ret,
                   annotations, metadata, file_contents, calls>>

\* create_annotation: self.validate_create_json(json_input)
ValidateCreate ==
    /\ pc = "call" /\ args.fn = "create_annotation"
    /\ Called("validate_create_json",
              [annotations |-> annotations, metadata |-> metadata,
               error |-> validate_json("CREATE_SCHEMA", args.json_input)],
              "add")

\* update_annotation: self.validate_update_json(json_input)
ValidateUpdate ==
    /\ pc = "call" /\ args.fn = "update_annotation"
    /\ Called("validate_update_json",
              [annotations |-> annotations, metadata |-> metadata,
               error |-> validate_json("UPDATE_SCHEMA", args.json_input)],
              "parse_file")

\* update_annotation: self.parse_file()
ParseFile ==
    /\ pc = "parse_file"
    /\ LET parsed == parse_file(annotations, metadata, file_contents)
       IN  Called("parse_file",
                  [annotations |-> parsed.annotations, metadata |-> parsed.metadata,
                   error |-> "none"],
                  "remove")

\* update_annotation: if to_remove: self.remove_annotations(to_remove)
RemoveAnnotations ==
    /\ pc = "remove"
    /\ LET to_remove == KeyGet(args.json_input, "remove", <<>>)
       IN  IF to_remove # <<>>
             THEN Called("remove_annotations",
                         remove_annotations(annotations, metadata, to_remove),
                         "replace")
             ELSE Skipped("replace")

\* update_annotation: if to_replace: self.replace_annotations(to_replace)
ReplaceAnnotations ==
    /\ pc = "replace"
    /\ LET to_replace == KeyGet(args.json_input, "replace", <<>>)
       IN  IF to_replace # <<>>
             THEN Called("replace_annotations",
                         replace_annotations(annotations, metadata, to_replace),
                         "add")
             ELSE Skipped("add")

\* update_annotation: if to_add: self.add_annotations(to_add);
\* create_annotation: self.add_annotations(json_input)
AddAnnotations ==
    /\ pc = "add"
    /\ LET to_add == IF args.fn = "create_annotation" THEN args.json_input
                     ELSE KeyGet(args.json_input, "add", <<>>)
       IN  IF to_add # <<>> \/ args.fn = "create_annotation"
             THEN Called("add_annotations",
                         add_annotations(annotations, metadata, to_add),
                         "done")
             ELSE Skipped("done")

NextGeneAnnotation ==
    \/ ValidateCreate
    \/ ValidateUpdate
    \/ ParseFile
    \/ RemoveAnnotations
    \/ ReplaceAnnotations
    \/ AddAnnotations

SpecGeneAnnotation == InitGeneAnnotation /\ [][NextGeneAnnotation]_vars

(***************************************************************************)
(* Vocabulary of the properties                                            *)
(***************************************************************************)
Positions == DOMAIN call0.existing
NewPositions == DOMAIN call0.new
PrimaryFields == parse_merge_info(call0.merge_info).primary_merge_fields
SecondaryFields == parse_merge_info(call0.merge_info).secondary_merge_fields
ManyToMany == call0.merge_info.type = <<MERGE_CHOICE_MANY, MERGE_CHOICE_MANY>>

\* the leaf values a field path resolves to in a record
LeafValues(record, field) == IterKeys(nested_getter(record, strip(field.s), FALSE))

\* the two records share a leaf value on the field pair
Shares(existing_record, new_record, pair) ==
    LeafValues(existing_record, pair[1]) \cap LeafValues(new_record, pair[2]) # {}

\* base position e and incoming position n share a value on every primary pair
PrimaryMatch(e, n) ==
    \A i \in DOMAIN PrimaryFields : Shares(call0.existing[e], call0.new[n], PrimaryFields[i])

PrimaryMatches(e) == {n \in NewPositions : PrimaryMatch(e, n)}

\* ... and on each of the first j secondary pairs
SecondaryMatch(e, n, j) ==
    \A i \in 1..j : Shares(call0.existing[e], call0.new[n], SecondaryFields[i])

\* the list a base record holds under the prefix (empty when it has none)
PrefixList(record) ==
    IF Get(record, prefix) = None THEN <<>> ELSE Get(record, prefix).l

\* the incoming records at the positions ns, as a list
RecordsAt(ns) == LET nodes == SortedSeq(ns) IN [i \in DOMAIN nodes |-> call0.new[nodes[i]]]

\* the apply steps that wrote the prefix list of base position e
WritesOf(e) == {r \in DOMAIN applied : e \in DOMAIN applied[r].kept}

\* the incoming positions embedded in e by this call: those of the last write
EmbeddedIn(e) ==
    IF WritesOf(e) = {} THEN {}
    ELSE applied[CHOOSE r \in WritesOf(e) : \A r2 \in WritesOf(e) : r2 <= r].kept[e]

\* the prefix list of every base record is what the last write put there, or
\* what the record held before the call
ListsAsApplied ==
    \A e \in DOMAIN existing_annotation :
        PrefixList(existing_annotation[e]) =
            IF WritesOf(e) = {} THEN PrefixList(call0.existing[e])
            ELSE RecordsAt(EmbeddedIn(e))

Logged(msg, n) == \E i \in DOMAIN log : log[i] = LogEntry(msg, n)

(***************************************************************************)
(* C1                                                                      *)
(***************************************************************************)
\* C1: with cardinality (many, many) and a non-empty list of primary field
\* pairs, when merge_annotations has completed the list under the prefix of
\* base position e holds exactly the incoming records n that share a leaf
\* value with e on every primary pair; a base record with no such n is as it
\* was before the call (it gains no prefix key).
C1_PrimaryAnd ==
    (pc = "done" /\ ManyToMany /\ PrimaryFields # <<>>) =>
        \A e \in Positions :
            IF PrimaryMatches(e) # {}
              THEN /\ Get(existing_annotation[e], prefix) = List(RecordsAt(PrimaryMatches(e)))
                   /\ EmbeddedIn(e) = PrimaryMatches(e)
              ELSE /\ existing_annotation[e] = call0.existing[e]
                   /\ EmbeddedIn(e) = {}

\* two primary pairs; one base record merged with an incoming record while
\* another incoming record matches it on the first pair only; another base
\* record matches nothing and has no prefix key
C1_Witness ==
    /\ pc = "done" /\ ManyToMany /\ Len(PrimaryFields) = 2
    /\ \E e \in Positions, n1, n2 \in NewPositions :
        /\ PrimaryMatch(e, n1)
        /\ ~PrimaryMatch(e, n2)
        /\ Shares(call0.existing[e], call0.new[n2], PrimaryFields[1])
        /\ PrefixList(existing_annotation[e]) = <<call0.new[n1]>>
    /\ \E e \in Positions :
        /\ PrimaryMatches(e) = {}
        /\ Get(existing_annotation[e], prefix) = None

(***************************************************************************)
(* C2                                                                      *)
(***************************************************************************)
\* C2: when merge_annotations has completed, whatever the number of
\* secondary rounds: if existing_to_new_unique is set, the list this call
\* wrote under the prefix of a base record holds at most one incoming
\* record; if new_to_existing_unique is set, every incoming record is
\* embedded in at most one base record.
C2_Cardinality ==
    pc = "done" =>
        /\ ListsAsApplied
        /\ existing_to_new_unique =>
              \A e \in Positions :
                  /\ Cardinality(EmbeddedIn(e)) <= 1
                  /\ WritesOf(e) # {} => Len(PrefixList(existing_annotation[e])) <= 1
        /\ new_to_existing_unique =>
              \A n \in NewPositions :
                  Cardinality({e \in Positions : n \in EmbeddedIn(e)}) <= 1

\* both flags set, ties pruned after the primary round, and a secondary
\* round that embedded a record
C2_Witness ==
    /\ pc = "done"
    /\ existing_to_new_unique /\ new_to_existing_unique
    /\ Len(applied) >= 2
    /\ DOMAIN applied[1].pruned # {}
    /\ \E e \in Positions : 2 \in WritesOf(e) /\ Cardinality(EmbeddedIn(e)) = 1

(***************************************************************************)
(* C3                                                                      *)
(***************************************************************************)
\* C3: whenever a merge call has completed the incoming collection is empty.
C3_Exhaustion == pc = "done" => new_annotation = <<>>

\* a completed call in which one incoming record was merged, one was pruned
\* and never resolved, or never matched at all
C3_Witness ==
    /\ pc = "done"
    /\ Len(call0.new) = 2
    /\ \E e \in Positions : EmbeddedIn(e) # {}
    /\ \E n \in NewPositions : \A e \in Positions : n \notin EmbeddedIn(e)
    /\ new_annotation = <<>>

(***************************************************************************)
(* C4                                                                      *)
(***************************************************************************)
\* base position e is in the edge maps an apply step hands to the next round
CarriedAfter(r, e) == e \in DOMAIN applied[r].pruned

C5_ApplyExtends ==
    [][pc = "apply" =>
          \A e \in DOMAIN existing_annotation :
              Range(PrefixList(existing_annotation[e]))
                  \subseteq Range(PrefixList(existing_annotation'[e]))]_vars

(***************************************************************************)
(* C6                                                                      *)
(***************************************************************************)
\* the base positions that carry a non-empty list under the prefix
MergedPositions ==
    {e \in DOMAIN existing_annotation : PrefixList(existing_annotation[e]) # <<>>}

\* C6: within a merge call the set of base positions carrying a merged
\* prefix list never shrinks from one step to the next, so the set after any
\* secondary round includes the set after the primary round.
C6_Monotonic == [][MergedPositions \subseteq MergedPositions']_vars

\* after a secondary round the set holds a position merged in the primary
\* round and one merged in the secondary round only
C6_Witness ==
    /\ pc = "secondary"
    /\ Len(applied) = 2
    /\ \E e1, e2 \in MergedPositions :
        /\ e1 \in DOMAIN applied[1].kept
        /\ e2 \notin DOMAIN applied[1].kept
        /\ e2 \in DOMAIN applied[2].kept
        /\ PrefixList(call0.existing[e2]) = <<>>

(***************************************************************************)
(* C7                                                                      *)
(***************************************************************************)
\* C7: whatever the cardinality, an incoming record n is embedded in base
\* record e only if the two share a leaf value on every primary pair and,
\* when embedded in a secondary round, on every secondary pair consumed up
\* to that round; a secondary round embeds only pairs that were in the
\* pruned edge map of the round before.
C7_EmbeddedSurvived ==
    /\ pc \in {"secondary", "done"} => ListsAsApplied
    /\ \A r \in DOMAIN applied : \A e \in DOMAIN applied[r].kept :
          \A n \in applied[r].kept[e] :
              /\ PrimaryMatch(e, n)
              /\ SecondaryMatch(e, n, applied[r].round)
              /\ r > 1 => /\ e \in DOMAIN applied[r - 1].pruned
                          /\ n \in applied[r - 1].pruned[e]

\* a pair embedded in the second secondary round
C7_Witness ==
    /\ pc = "done"
    /\ Len(applied) = 3
    /\ \E e \in Positions :
        /\ e \in DOMAIN applied[3].kept
        /\ PrefixList(existing_annotation[e]) = RecordsAt(applied[3].kept[e])

(***************************************************************************)
(* C8                                                                      *)
(***************************************************************************)
\* C8: during and after a merge call the base collection has the length it
\* had before, every base record has the value it had under every key but
\* the prefix, and a base record no apply step wrote to is unchanged.
C8_Frame ==
    /\ Len(existing_annotation) = Len(call0.existing)
    /\ \A e \in DOMAIN existing_annotation :
        /\ IsDict(existing_annotation[e])
        /\ \A key \in (DOMAIN existing_annotation[e].d \cup DOMAIN call0.existing[e].d)
                          \ {prefix} :
              Get(existing_annotation[e], key) = Get(call0.existing[e], key)
        /\ WritesOf(e) = {} => existing_annotation[e] = call0.existing[e]

\* a completed call that wrote the prefix list of a record with two other
\* keys and left another record alone
C8_Witness ==
    /\ pc = "done"
    /\ \E e1, e2 \in Positions :
        /\ WritesOf(e1) # {}
        /\ Cardinality(DOMAIN call0.existing[e1].d) = 2
        /\ existing_annotation[e1] # call0.existing[e1]
        /\ WritesOf(e2) = {}

(***************************************************************************)
(* C9                                                                      *)
(***************************************************************************)
\* the base positions with two or more primary matches
Tied == {e \in Positions : Cardinality(PrimaryMatches(e)) >= 2}

\* the first secondary pair matches e with n alone among the candidates of
\* e, and n with no other base record
ResolvedBy(e, n) ==
    /\ {m \in PrimaryMatches(e) :
            Shares(call0.existing[e], call0.new[m], SecondaryFields[1])} = {n}
    /\ {e2 \in Positions :
            /\ PrimaryMatch(e2, n)
            /\ Shares(call0.existing[e2], call0.new[n], SecondaryFields[1])} = {e}

\* C9: with existing_to_new_unique set (the base side constrained to "one"),
\* a base record with two or more primary matches is not merged in the
\* primary round; with no secondary fields the call ends with it unmerged
\* and counted in the unresolved report (a count of 1 when it is the only
\* one); with a secondary pair that matches it with exactly one of its
\* candidates, which matches no other base record, the secondary round
\* merges it with exactly that candidate.
C9_TieBreak ==
    (existing_to_new_unique /\ PrimaryFields # <<>>) =>
        /\ Len(applied) >= 1 => \A e \in Tied : e \notin DOMAIN applied[1].kept
        /\ (pc = "done" /\ SecondaryFields = <<>>) =>
              /\ \A e \in Tied :
                    /\ existing_annotation[e] = call0.existing[e]
                    /\ existing_to_new_edges # <<>>
                    /\ e \in DOMAIN existing_to_new_edges[1]
              /\ Tied # {} =>
                    Logged("unmatched", Cardinality(DOMAIN existing_to_new_edges[1]))
              /\ (Tied # {} /\ ~new_to_existing_unique) =>
                    Logged("unmatched", Cardinality(Tied))
        /\ (pc = "done" /\ SecondaryFields # <<>>) =>
              \A e \in Tied : \A n \in NewPositions :
                  ResolvedBy(e, n) =>
                      /\ Len(applied) >= 2
                      /\ e \in DOMAIN applied[2].kept
                      /\ applied[2].kept[e] = {n}
                      /\ PrefixList(existing_annotation[e]) = <<call0.new[n]>>

\* a tie of two candidates left after the primary round and resolved by the
\* secondary round
C9_Witness ==
    /\ pc = "done"
    /\ existing_to_new_unique /\ PrimaryFields # <<>> /\ SecondaryFields # <<>>
    /\ \E e \in Tied : \E n \in NewPositions :
        /\ ResolvedBy(e, n)
        /\ applied[1].kept = EmptyMap
        /\ PrefixList(existing_annotation[e]) = <<call0.new[n]>>

(***************************************************************************)
(* C10                                                                     *)
(***************************************************************************)
\* no base record and incoming record share a value on the primary pairs
NoPrimaryMatch ==
    /\ PrimaryFields # <<>>
    /\ \A e \in Positions : PrimaryMatches(e) = {}

\* C10 as claimed: when nothing matches on the primary fields, the call
\* leaves the base collection unchanged, reports the unmatched base records
\* as unresolved (a count of 1 for one base record) and empties the incoming
\* collection.
C10_NoMatchCounted ==
    (pc = "done" /\ NoPrimaryMatch) =>
        /\ existing_annotation = call0.existing
        /\ Logged("unmatched", Len(call0.existing))
        /\ new_annotation = <<>>

\* C10 as amended: when nothing matches on the primary fields, the call
\* leaves the base collection unchanged, reports a merge count of 0 and no
\* unresolved count at all (the unmatched base record was never in an edge
\* map, so it is not counted), and empties the incoming collection.
C10_NoMatchNotCounted ==
    (pc = "done" /\ NoPrimaryMatch) =>
        /\ existing_annotation = call0.existing
        /\ Logged("merged", 0)
        /\ \A i \in DOMAIN log : log[i].msg # "unmatched"
        /\ new_annotation = <<>>

\* Scenario D: base = [{id: 1}], incoming = [{ref: 2}]
C10_Witness ==
    /\ pc = "done"
    /\ NoPrimaryMatch
    /\ call0.existing = <<Rec1(<<"id">>, Leaf("1"))>>
    /\ call0.new = <<Rec1(<<"ref">>, Leaf("2"))>>
    /\ call0.merge_info.primary_fields = <<IdRef>>

(***************************************************************************)
(* C11                                                                     *)
(***************************************************************************)
\* the base positions some round set aside and no round merged
SetAsideUnmerged ==
    {e \in Positions :
        /\ \E r \in DOMAIN applied : e \in DOMAIN applied[r].pruned
        /\ WritesOf(e) = {}}

\* C11: when the merge call ends, every base position that a round set
\* aside by pruning and that no round merged is in the edge map the
\* unresolved report counts, and that count is reported, whether or not
\* secondary field pairs were consumed in between.
C11_SetAsideCounted ==
    (pc = "done" /\ SetAsideUnmerged # {}) =>
        /\ existing_to_new_edges # <<>>
        /\ SetAsideUnmerged \subseteq DOMAIN existing_to_new_edges[1]
        /\ Logged("unmatched", Cardinality(DOMAIN existing_to_new_edges[1]))

(***************************************************************************)
(* C12                                                                     *)
(***************************************************************************)
\* the pairs of the primary and the secondary field list of a merge_info
FieldPairs(merge_info) ==
    Range(parse_merge_info(merge_info).primary_merge_fields)
        \cup Range(parse_merge_info(merge_info).secondary_merge_fields)

\* a merge specification with no primary fields, with a cardinality token
\* other than "one" and "many", or with a pair that has not two sides
InvalidConfig(merge_info) ==
    \/ parse_merge_info(merge_info).primary_merge_fields = <<>>
    \/ /\ "type" \in DOMAIN merge_info
       /\ \E i \in DOMAIN merge_info.type :
            merge_info.type[i] \notin {MERGE_CHOICE_ONE, MERGE_CHOICE_MANY}
    \/ \E pair \in FieldPairs(merge_info) : Len(pair) # 2

\* C12: a merge call on an invalid merge specification never gets past the
\* point before its first join other than by raising: no join has executed
\* (the edge lists are empty) and the base collection is as it was.
C12_ConfigErrorsAbort ==
    InvalidConfig(call0.merge_info) =>
        /\ pc \in {"begin", "primary", "raised"}
        /\ existing_to_new_edges = <<>>
        /\ new_to_existing_edges = <<>>
        /\ existing_annotation = call0.existing

(***************************************************************************)
(* C13                                                                     *)
(***************************************************************************)
\* C13: a merge call on a valid merge specification (primary fields given,
\* tokens "one" or "many", every pair two strings) never raises, whatever
\* the records hold under the join fields.
C13_NoRecordFailure ==
    (/\ ~InvalidConfig(call0.merge_info)
     /\ \A pair \in FieldPairs(call0.merge_info) :
            \A i \in DOMAIN pair : IsStr(pair[i]))
        => pc # "raised"

(***************************************************************************)
(* C14                                                                     *)
(***************************************************************************)
\* some primary field path resolves to no leaf value in the base record at e
PrimaryMiss(e) ==
    \E i \in DOMAIN PrimaryFields :
        LeafValues(call0.existing[e], PrimaryFields[i][1]) = {}

\* the rounds that had base position e among their edges, kept or set aside
ConsideredIn(e) ==
    {r \in DOMAIN applied : e \in DOMAIN applied[r].kept \cup DOMAIN applied[r].pruned}

\* base position e shares a leaf value with an incoming record on the field
\* pair of a secondary round that ran
SharesInLaterRound(e) ==
    \E r \in DOMAIN applied :
        /\ r > 1
        /\ \E n \in NewPositions :
              Shares(call0.existing[e], call0.new[n], SecondaryFields[applied[r].round])

\* C14 as claimed: a base record with a primary field path that resolves to
\* nothing stays eligible: when a later round runs on a field pair on which
\* it shares a leaf value with an incoming record, that round has it among
\* its edges (merged or set aside).
C14_MissStaysEligible ==
    pc = "done" =>
        \A e \in Positions :
            (PrimaryMiss(e) /\ SharesInLaterRound(e)) => ConsideredIn(e) # {}

\* C14 as amended: a base record with a primary field path that resolves to
\* nothing gets no edge for that field pair, and no round of the call has it
\* among its edges or changes it, whatever it shares with incoming records
\* on secondary field pairs.
C14_MissNeverMerged ==
    \A e \in Positions :
        /\ pc = "primary" =>
              \A i \in DOMAIN existing_to_new_edges :
                  LeafValues(call0.existing[e], PrimaryFields[i][1]) = {}
                      => e \notin DOMAIN existing_to_new_edges[i]
        /\ PrimaryMiss(e) =>
              /\ ConsideredIn(e) = {}
              /\ existing_annotation[e] = call0.existing[e]
              /\ (pc \notin {"begin", "primary"} /\ existing_to_new_edges # <<>>)
                    => e \notin DOMAIN existing_to_new_edges[1]

\* a completed call with a secondary round on a pair on which a base record
\* with a primary miss shares a value with an incoming record
C14_Witness ==
    /\ pc = "done"
    /\ \E e \in Positions :
        /\ PrimaryMiss(e)
        /\ SharesInLaterRound(e)
        /\ Get(existing_annotation[e], prefix) = None

(***************************************************************************)
(* C15                                                                     *)
(***************************************************************************)
\* C15: when the merge call has completed, the field lists of the caller's
\* merge_info (the list objects the call was handed) hold the primary and
\* the secondary field pairs they held before the call, so that a second
\* call built from the same merge_info joins on the same pairs.
C15_MergeInfoKept ==
    pc = "done" =>
        /\ primary_merge_fields = PrimaryFields
        /\ secondary_merge_fields = SecondaryFields

\* the field names of a join side: a str is one name, a list is its names
NamesOf(side) ==
    IF IsStr(side) THEN <<Str(strip(side.s))>>
    ELSE [i \in DOMAIN side.l |-> Str(strip(side.l[i].s))]

\* every leaf value found under any of the names, mapped to the positions
\* (of indices, or of the whole annotation when indices is empty) that hold it
UnionIndex(annotation, names, indices) ==
    LET idxs == IF indices # {} THEN indices ELSE DOMAIN annotation
        vals(idx) == UNION {LeafValues(annotation[idx], names[i]) : i \in DOMAIN names}
    IN  [v \in UNION {vals(idx) : idx \in idxs} |-> {idx \in idxs : v \in vals(idx)}]

\* C16: get_merge_fields returns each side of the first field pair as a list
\* of field names, and match_value_to_annotation given a list of field names
\* returns the map from every leaf value found under any of the listed fields
\* to the set of positions that hold it.
C16_ListOfNames ==
    pc = "returned" =>
        /\ args.fn = "get_merge_fields" =>
              /\ ret[1] = "returned"
              /\ ret[2] = [i \in DOMAIN Head(args.merge_field_list) |->
                              List(NamesOf(Head(args.merge_field_list)[i]))]
        /\ (args.fn = "match_value_to_annotation" /\ IsList(args.field)) =>
              /\ ret[1] = "returned"
              /\ ret[2] = UnionIndex(args.annotation, args.field.l, args.indices)

\* C17: parse_merge_info returns the primary fields and the secondary fields
\* of merge_info, each the empty list when its key is absent, and the two
\* flags: new_to_existing_unique is set exactly when a type is given and its
\* first element is "one", existing_to_new_unique exactly when a type is given
\* and its second element is "one" (an absent type sets neither).
C17_ParseMergeInfo ==
    (pc = "returned" /\ args.fn = "parse_merge_info") =>
        LET merge_info == args.merge_info
            given(key) == key \in DOMAIN merge_info
        IN  /\ ret[1] = "returned"
            /\ ret[2].primary_merge_fields =
                   (IF given("primary_fields") THEN merge_info.primary_fields ELSE <<>>)
            /\ ret[2].secondary_merge_fields =
                   (IF given("secondary_fields") THEN merge_info.secondary_fields ELSE <<>>)
            /\ ret[2].new_to_existing_unique =
                   (given("type") /\ merge_info.type[1] = MERGE_CHOICE_ONE)
            /\ ret[2].existing_to_new_unique =
                   (given("type") /\ merge_info.type[2] = MERGE_CHOICE_ONE)

\* a type of ("one", "many") without secondary fields has been parsed
C17_Witness ==
    /\ pc = "returned" /\ args.fn = "parse_merge_info"
    /\ DOMAIN args.merge_info = {"primary_fields", "type"}
    /\ args.merge_info.type = <<MERGE_CHOICE_ONE, MERGE_CHOICE_MANY>>
    /\ ret[2].new_to_existing_unique /\ ~ret[2].existing_to_new_unique
    /\ ret[2].secondary_merge_fields = <<>>

\* the return rule of nested_getter: a str goes into a list unless a string
\* is asked for; a list of one element gives the element when one is
Wrap(value, string_return) ==
    IF IsStr(value) /\ ~string_return THEN List(<<value>>)
    ELSE IF IsList(value) /\ Len(value.l) = 1 /\ string_return THEN value.l[1]
    ELSE value

\* the path names a key that some level of the nested dicts does not have
RECURSIVE MissingKey(_, _)
MissingKey(item, field_to_get) ==
    /\ IsDict(item)
    /\ field_to_get \notin DOMAIN item.d
    /\ \/ Len(field_to_get) = 1
       \/ <<Head(field_to_get)>> \notin DOMAIN item.d
       \/ MissingKey(item.d[<<Head(field_to_get)>>], Tail(field_to_get))

\* the empty results: [], None when a string is asked for, and the empty
\* dict a path stops at
EmptyResults == {List(<<>>), None, Dict(EmptyMap)}

SchemaOf(fn) == IF fn = "create_annotation" THEN "CREATE_SCHEMA" ELSE "UPDATE_SCHEMA"

\* C18: once create_annotation or update_annotation has acted on JSON that
\* does not validate against its schema, it has raised JSONInputError, the
\* validation is the only method it called (the file was not parsed; no
\* remove, replace or add ran), and annotations and metadata are what they
\* were before the call.
C18_ValidationFirst ==
    (pc # "call" /\ ~is_valid(SchemaOf(args.fn), args.json_input)) =>
        /\ pc = "raised"
        /\ ret = <<"raised", "JSONInputError">>
        /\ calls \in {<<"validate_create_json">>, <<"validate_update_json">>}
        /\ annotations = call0.annotations
        /\ metadata = call0.metadata

\* update_annotation has raised on an input whose "add" holds a source
\* without parser, with a list to remove, while the file holds annotations
\* that differ from those of the object
C18_Witness ==
    /\ pc = "raised" /\ args.fn = "update_annotation"
    /\ DOMAIN args.json_input = {"add", "remove"}
    /\ args.json_input.add = <<NoParserSource>>
    /\ args.json_input.remove = <<Str(prefix)>>
    /\ file_contents # <<>>
    /\ call0.annotations # <<>>
    /\ annotations = call0.annotations

\* C19: merge_annotations terminates: every call reaches its end.  On the
\* way, a step that changes the primary field list removes exactly its first
\* pair, and the list is empty at the end (each primary pair is joined exactly
\* once); a step that changes the secondary field list removes exactly its
\* first pair (each secondary pair is joined at most once); and after every
\* intersect fold each of the two edge lists holds at most one map.
C19_Terminates ==
    /\ <>(pc = "done")
    /\ [](pc \in {"apply", "secondary", "done"} => primary_merge_fields = <<>>)
    /\ [][ /\ primary_merge_fields' # primary_merge_fields =>
                primary_merge_fields' = Tail(primary_merge_fields)
           /\ secondary_merge_fields' # secondary_merge_fields =>
                secondary_merge_fields' = Tail(secondary_merge_fields) ]_vars
    /\ [](pc = "apply" =>
            Len(existing_to_new_edges) <= 1 /\ Len(new_to_existing_edges) <= 1)

\* a call with two primary pairs and a secondary pair that was joined has ended
C19_Witness ==
    /\ pc = "done"
    /\ Len(PrimaryFields) = 2
    /\ Len(SecondaryFields) = 1
    /\ secondary_merge_fields = <<>>

\* the value the path leads to in a record: the value of the key equal to
\* the whole path, or what the rest of the path leads to in the record under
\* its first term; None when there is none
RECURSIVE ValueAt(_, _)
ValueAt(item, path) ==
    IF path \in DOMAIN item.d THEN item.d[path]
    ELSE IF /\ Len(path) > 1
            /\ <<Head(path)>> \in DOMAIN item.d
            /\ IsDict(item.d[<<Head(path)>>])
      THEN ValueAt(item.d[<<Head(path)>>], Tail(path))
    ELSE None

\* C21: nested_setter(record, path, value) with a non-null value (and no
\* delete flag) overwrites the key equal to the whole path when the record
\* has that key at its top level; otherwise the value is afterwards found at
\* the nested location the path names, the intermediate records being
\* created where missing; the top-level keys off the path are unchanged; and
\* a null value with no delete flag changes nothing.
C21_Assign ==
    (pc = "returned" /\ args.fn = "nested_setter" /\ ~args.delete_field) =>
        LET item == args.item
            path == args.field_to_set
            after == ret[2]
        IN  IF args.value = None THEN after = item
            ELSE /\ path \in DOMAIN item.d => after = SetItem(item, path, args.value)
                 /\ path \notin DOMAIN item.d => ValueAt(after, path) = args.value
                 /\ \A key \in DOMAIN item.d \ {path, <<Head(path)>>} :
                        /\ key \in DOMAIN after.d
                        /\ after.d[key] = item.d[key]

\* what update_annotation holds when parse_file has returned
Loaded == parse_file(call0.annotations, call0.metadata, file_contents)

\* the record with the key p, and the key p of its cytoband map, taken away
Without(record, p) ==
    LET cut == Dict([key \in DOMAIN record.d \ {p} |-> record.d[key]])
    IN  IF CYTOBAND \in DOMAIN cut.d /\ IsDict(cut.d[CYTOBAND])
          THEN SetItem(cut, CYTOBAND,
                       Dict([key \in DOMAIN cut.d[CYTOBAND].d \ {p} |->
                                cut.d[CYTOBAND].d[key]]))
          ELSE cut

\* C22: when remove_annotations has been called by update_annotation, for
\* every prefix p listed under "remove" no record of the annotation list has
\* the key p, no record's cytoband map has the key p and the metadata map has
\* no key p; the records are otherwise what they were, and the metadata of
\* the other prefixes is unchanged.
C22_SourceRemoved ==
    (calls # <<>> /\ calls[Len(calls)] = "remove_annotations") =>
        LET listed == {args.json_input.remove[i].s : i \in DOMAIN args.json_input.remove}
        IN  /\ \A p \in listed :
                  /\ p \notin DOMAIN metadata
                  /\ \A r \in DOMAIN annotations : annotations[r] = Without(annotations[r], p)
            /\ DOMAIN annotations = DOMAIN Loaded.annotations
            /\ \A r \in DOMAIN annotations :
                  \A key \in DOMAIN Loaded.annotations[r].d \ listed :
                      /\ key \in DOMAIN annotations[r].d
                      /\ key # CYTOBAND =>
                            annotations[r].d[key] = Loaded.annotations[r].d[key]
            /\ \A p \in DOMAIN Loaded.metadata \ listed :
                  p \in DOMAIN metadata /\ metadata[p] = Loaded.metadata[p]

\* C23: match_annotations links base position e and incoming position n if
\* and only if some value of the two value maps has e among its base
\* positions and n among its incoming positions; the first map returned
\* gives each linked e exactly its linked n, the second each linked n exactly
\* its linked e, and neither has a key without a link.
C23_AnyValueOverlap ==
    (pc = "returned" /\ args.fn = "match_annotations") =>
        LET existing_value_map == args.existing_value_map
            new_value_map == args.new_value_map
            Linked(e, n) ==
                \E value \in DOMAIN existing_value_map \cap DOMAIN new_value_map :
                    e \in existing_value_map[value] /\ n \in new_value_map[value]
            es == {e \in 1..2 : \E n \in 1..2 : Linked(e, n)}
            ns == {n \in 1..2 : \E e \in 1..2 : Linked(e, n)}
        IN  /\ ret[1] = "returned"
            /\ ret[2][1] = [e \in es |-> {n \in 1..2 : Linked(e, n)}]
            /\ ret[2][2] = [n \in ns |-> {e \in 1..2 : Linked(e, n)}]

\* the value maps of base <<{"g": {"id": ["A", "B"]}}>> under "g.id" and of
\* incoming <<{"ref": "B"}>> under "ref" have been matched: the two
\* records are linked through B alone
C23_Witness ==
    /\ pc = "returned" /\ args.fn = "match_annotations"
    /\ args.existing_value_map =
           match_value_to_annotation(
               <<Rec1(<<"g">>, Rec1(<<"id">>, List(<<Leaf("A"), Leaf("B")>>)))>>,
               Str(<<"g", "id">>), {})
    /\ args.new_value_map =
           match_value_to_annotation(<<Rec1(<<"ref">>, Leaf("B"))>>, Str(<<"ref">>), {})
    /\ DOMAIN args.existing_value_map = {Leaf("A"), Leaf("B")}
    /\ ret[2] = <<[e \in {1} |-> {1}], [n \in {1} |-> {1}]>>

\* the sets the maps of the list give for key, intersected
RECURSIVE MeetOf(_, _)
MeetOf(list_of_edges, key) ==
    IF Len(list_of_edges) = 1 THEN Head(list_of_edges)[key]
    ELSE Head(list_of_edges)[key] \cap MeetOf(Tail(list_of_edges), key)

\* the list in another order
Reordered(list_of_edges) ==
    { [i \in DOMAIN list_of_edges |-> list_of_edges[order[i]]] :
        order \in { f \in [DOMAIN list_of_edges -> DOMAIN list_of_edges] :
                      \A i \in DOMAIN list_of_edges :
                          \E j \in DOMAIN list_of_edges : f[j] = i } }

\* C24: intersect_edges leaves an empty list empty; a list of n >= 1 edge
\* maps it leaves as a list of exactly one map, whose keys are exactly the
\* keys that all n maps have and for which the intersection of the n sets is
\* not empty, each mapped to that intersection; and the list in any other
\* order is left with the same map.
C24_Intersection ==
    (pc = "returned" /\ args.fn = "intersect_edges") =>
        LET list_of_edges == args.list_of_edges
            common == {key \in 1..2 :
                          \A i \in DOMAIN list_of_edges : key \in DOMAIN list_of_edges[i]}
        IN  /\ ret[1] = "returned"
            /\ list_of_edges = <<>> => ret[2] = <<>>
            /\ list_of_edges # <<>> =>
                  /\ ret[2] = << [key \in {k \in common : MeetOf(list_of_edges, k) # {}} |->
                                     MeetOf(list_of_edges, key)] >>
                  /\ \A other \in Reordered(list_of_edges) :
                        intersect_edges(other) = ret[2]

\* three maps have been folded: a key that only two of them have and a key
\* whose three sets do not meet are gone, one key is left
C24_Witness ==
    /\ pc = "returned" /\ args.fn = "intersect_edges"
    /\ Len(args.list_of_edges) = 3
    /\ DOMAIN args.list_of_edges[1] = {1, 2}
    /\ DOMAIN args.list_of_edges[2] = {1, 2}
    /\ args.list_of_edges[1][2] \cap args.list_of_edges[2][2] = {}
    /\ args.list_of_edges[1][1] # args.list_of_edges[2][1]
    /\ DOMAIN ret[2][1] = {1}

\* the edges an edge map holds, as pairs (key, member of its set)
EdgesOf(edge_map) ==
    UNION {{<<key, value>> : value \in edge_map[key]} : key \in DOMAIN edge_map}

Mirrored(edges) == {<<edge[2], edge[1]>> : edge \in edges}

\* C25: after prune_to_unique_edges every edge (e, n) of the intersected
\* maps is either in the kept maps or in the pruned maps, never in both and
\* never in neither; it is in the pruned maps if and only if
\* existing_to_new_unique holds and e has more than one candidate, or
\* new_to_existing_unique holds and n has more than one candidate; the maps
\* of the two directions hold the same edges; and with both flags false the
\* pruned maps are empty and the kept maps are the intersected maps.
C25_PrunePartition ==
    (pc = "returned" /\ args.fn = "prune_to_unique_edges") =>
        LET edges == EdgesOf(args.existing_to_new_edges[1])
            kept == EdgesOf(ret[2].kept_existing_to_new)
            pruned == EdgesOf(ret[2].pruned_existing_to_new)
            SetAside(edge) ==
                \/ /\ args.existing_to_new_unique
                   /\ Cardinality({x \in edges : x[1] = edge[1]}) > 1
                \/ /\ args.new_to_existing_unique
                   /\ Cardinality({x \in edges : x[2] = edge[2]}) > 1
        IN  /\ ret[1] = "returned"
            /\ kept \cup pruned = edges
            /\ kept \cap pruned = {}
            /\ pruned = {edge \in edges : SetAside(edge)}
            /\ EdgesOf(ret[2].kept_new_to_existing) = Mirrored(kept)
            /\ EdgesOf(ret[2].pruned_new_to_existing) = Mirrored(pruned)
            /\ (~args.existing_to_new_unique /\ ~args.new_to_existing_unique) =>
                  /\ ret[2].kept_existing_to_new = args.existing_to_new_edges[1]
                  /\ ret[2].kept_new_to_existing = args.new_to_existing_edges[1]
                  /\ ret[2].pruned_existing_to_new = EmptyMap
                  /\ ret[2].pruned_new_to_existing = EmptyMap

\* (one, many) has been pruned: a base position with one candidate that
\* two base positions share is set aside, a base position alone with its
\* candidate is kept
C25_Witness ==
    /\ pc = "returned" /\ args.fn = "prune_to_unique_edges"
    /\ args.new_to_existing_unique /\ ~args.existing_to_new_unique
    /\ args.existing_to_new_edges[1] = [e \in {1, 2} |-> IF e = 1 THEN {1, 2} ELSE {1}]
    /\ ret[2].kept_existing_to_new = [e \in {1} |-> {2}]
    /\ ret[2].pruned_existing_to_new = [e \in {1, 2} |-> {1}]

\* the two maps hold the same edges, each from its side, and no empty set
MirrorMaps(existing_to_new, new_to_existing) ==
    /\ EdgesOf(new_to_existing) = Mirrored(EdgesOf(existing_to_new))
    /\ \A e \in DOMAIN existing_to_new : existing_to_new[e] # {}
    /\ \A n \in DOMAIN new_to_existing : new_to_existing[n] # {}

\* C26: at every point of a merge call (after every join, every intersection
\* and every apply step) the two edge lists have the same length and the
\* maps at the same place describe the same edges: n is in the set of e in
\* the existing-to-new map exactly when e is in the set of n in the
\* new-to-existing map, and no set is empty.  This holds for the maps joined
\* and intersected, for the pruned maps an apply step hands to the next
\* round, and for the kept and pruned maps that the prune of an apply step
\* about to run produces.
C26_MirrorConsistency ==
    /\ Len(existing_to_new_edges) = Len(new_to_existing_edges)
    /\ \A i \in DOMAIN existing_to_new_edges :
          MirrorMaps(existing_to_new_edges[i], new_to_existing_edges[i])
    /\ pc = "apply" =>
          LET pruned == prune_to_unique_edges(existing_to_new_edges,
                                              new_to_existing_edges,
                                              existing_to_new_unique,
                                              new_to_existing_unique)
          IN  /\ MirrorMaps(pruned.kept_existing_to_new, pruned.kept_new_to_existing)
              /\ MirrorMaps(pruned.pruned_existing_to_new,
                            pruned.pruned_new_to_existing)

\* a secondary join has added its maps to pruned maps of more than one edge
\* left by an apply step that also kept an edge
C26_Witness ==
    /\ pc = "intersect"
    /\ Len(existing_to_new_edges) = 2
    /\ Cardinality(EdgesOf(existing_to_new_edges[1])) > 1
    /\ EdgesOf(existing_to_new_edges[2]) # {}
    /\ applied # <<>> /\ EdgesOf(applied[1].kept) # {}

\* the index of the whole collection under the field: every leaf value with
\* all the positions that hold it
FullIndex(annotation, field) == UnionIndex(annotation, <<field>>, DOMAIN annotation)

\* an index with every position set intersected with S, the values left
\* with no position removed
RestrictedTo(index, S) ==
    [value \in {v \in DOMAIN index : index[v] \cap S # {}} |-> index[value] \cap S]

\* C27 as stated: for every collection, field path and subset S of positions,
\* the empty subset included, match_value_to_annotation with indices = S
\* returns the unrestricted index with every position set intersected with S
\* and the values left with no position removed.
C27_RestrictionAnySubset ==
    (pc = "returned" /\ args.fn = "match_value_to_annotation" /\ IsStr(args.field)) =>
        /\ ret[1] = "returned"
        /\ ret[2] = RestrictedTo(FullIndex(args.annotation, args.field), args.indices)

\* C27 amended: for a non-empty subset S of positions the call returns the
\* unrestricted index with every position set intersected with S and the
\* values left with no position removed; for the empty subset (as for no
\* indices at all) it returns the unrestricted index.
C27_Restriction ==
    (pc = "returned" /\ args.fn = "match_value_to_annotation" /\ IsStr(args.field)) =>
        /\ ret[1] = "returned"
        /\ ret[2] = IF args.indices # {}
                      THEN RestrictedTo(FullIndex(args.annotation, args.field),
                                        args.indices)
                      ELSE FullIndex(args.annotation, args.field)

\* of three records, two with the same value, the first alone was indexed:
\* its value has lost a position and the other value is gone
C27_Witness ==
    /\ pc = "returned" /\ args.fn = "match_value_to_annotation"
    /\ args.field = Str(<<"id">>)
    /\ Len(args.annotation) = 3
    /\ args.indices = {1}
    /\ FullIndex(args.annotation, args.field) =
           [value \in {Leaf("1"), Leaf("2")} |-> IF value = Leaf("1") THEN {1, 3} ELSE {2}]
    /\ ret[2] = [value \in {Leaf("1")} |-> {1}]

\* the merge_info of the call with no secondary field pair
WithoutSecondary ==
    [key \in DOMAIN call0.merge_info |->
        IF key = "secondary_fields" THEN <<>> ELSE call0.merge_info[key]]

\* C28: in a merge call with cardinality (many, many), once the primary
\* apply step has run both edge lists are empty and stay empty; no secondary
\* field pair is ever joined (the secondary list is never shortened and no
\* secondary intersection is reached); and the base collection the call
\* ends with is the one the same call ends with when it has no secondary
\* field pairs.
C28_SecondaryOnlyBreaksTies ==
    ManyToMany =>
        /\ applied # <<>> => existing_to_new_edges = <<>> /\ new_to_existing_edges = <<>>
        /\ secondary_merge_fields = SecondaryFields
        /\ pc # "intersect"
        /\ Len(applied) <= 1
        /\ pc = "done" =>
              existing_annotation =
                  merge_annotations(call0.existing, call0.new,
                                    WithoutSecondary).existing_annotation

\* a (many, many) call that had a secondary field pair has ended: a base
\* record was merged with two incoming records, and the pair is still there
C28_Witness ==
    /\ pc = "done" /\ ManyToMany
    /\ SecondaryFields # <<>>
    /\ secondary_merge_fields = SecondaryFields
    /\ \E e \in Positions : Cardinality(EmbeddedIn(e)) = 2

\* the secondary field pairs not consumed yet are the last ones of the list
SecondaryLeftInOrder ==
    secondary_merge_fields =
        SubSeq(SecondaryFields, Round + 1, Len(SecondaryFields))

\* C29: every primary field pair has been joined when the first intersect
\* and apply run; from then on a step that consumes a secondary field pair
\* consumes exactly the first pair left (the pairs go in list order), is
\* taken only when the previous apply step left pruned edges, and is
\* followed by an intersect and then an apply of its own, so there is one
\* apply step for the primary pairs and one per secondary pair consumed;
\* and when an apply step leaves no pruned edges the call ends with the
\* remaining secondary pairs unread.
C29_RoundStructure ==
    /\ [](pc \notin {"begin", "primary"} => primary_merge_fields = <<>>)
    /\ [](pc \in {"begin", "primary"} => applied = <<>> /\ Round = 0)
    /\ []SecondaryLeftInOrder
    /\ [](pc \in {"secondary", "done"} => Len(applied) = Round + 1)
    /\ [](pc \in {"intersect", "apply"} => Len(applied) = Round)
    /\ [][ /\ secondary_merge_fields' # secondary_merge_fields =>
                /\ secondary_merge_fields' = Tail(secondary_merge_fields)
                /\ pc = "secondary" /\ pc' = "intersect"
                /\ applied # <<>>
                /\ DOMAIN applied[Len(applied)].pruned # {}
                /\ existing_to_new_edges = <<applied[Len(applied)].pruned>>
           /\ pc = "intersect" => pc' = "apply"
           /\ pc = "apply" => pc' = "secondary" /\ Len(applied') = Len(applied) + 1
           /\ (pc = "secondary" /\ existing_to_new_edges = <<>>) =>
                /\ pc' = "done"
                /\ secondary_merge_fields' = secondary_merge_fields ]_vars

\* a call with two primary pairs and a secondary pair has consumed the
\* secondary pair after an apply step that left pruned edges, and has ended
\* after the apply step of that round
C29_Witness ==
    /\ pc = "done"
    /\ Len(PrimaryFields) = 2 /\ Len(SecondaryFields) = 1
    /\ Round = 1
    /\ Len(applied) = 2
    /\ DOMAIN applied[1].pruned # {}


\* the place of a method in the order update_annotation calls them in
CallRank(method) ==
    CASE method = "validate_update_json" -> 1
      [] method = "parse_file" -> 2
      [] method = "remove_annotations" -> 3
      [] method = "replace_annotations" -> 4
      [] method = "add_annotations" -> 5
      [] OTHER -> 0

\* the prefixes an update lists both under "remove" and, as the prefix of a
\* source, under "add"
RemovedAndAdded ==
    LET to_remove == KeyGet(args.json_input, "remove", <<>>)
        to_add == KeyGet(args.json_input, "add", <<>>)
    IN  {to_remove[i].s : i \in DOMAIN to_remove}
            \cap {to_add[i].prefix.s : i \in DOMAIN to_add}

\* C30: when an update whose input validated has ended, the methods it
\* called were called in the order remove_annotations, replace_annotations,
\* add_annotations, and every prefix listed both under "remove" and under
\* "add" is a key of some record of the annotations and a key of the
\* metadata.
C30_UpdateOrder ==
    (args.fn = "update_annotation" /\ pc \in {"done", "raised"} /\ Len(calls) >= 2) =>
        /\ \A i \in DOMAIN calls : \A j \in DOMAIN calls :
              i < j => CallRank(calls[i]) < CallRank(calls[j])
        /\ \A p \in RemovedAndAdded :
              /\ p \in DOMAIN metadata
              /\ \E r \in DOMAIN annotations : p \in DOMAIN annotations[r].d

====
